---- MODULE Spec2Model ----
(***************************************************************************)
(* Verification engine of Bigbob-verify: the verifications and users       *)
(* tables, the issue / confirm / poll / expire operations that act on      *)
(* them, and the storage constraints that arbitrate them.                  *)
(*                                                                         *)
(* Strings are sequences of one-character strings.  A row id is the row's  *)
(* index in its table; rows are inserted in created_at order (utcnow() at  *)
(* insert), so ORDER BY created_at DESC is "highest index first".          *)
(***************************************************************************)
EXTENDS Integers, Sequences, FiniteSets, TLC

\* ---------------------------------------------------------------- bounds
\* rows the verifications table may hold in Spec and SpecConc, and in SpecDeep
MaxRows == 2
MaxDeepRows == 3
\* rows the verifications table may hold in SpecQueue
MaxQueueRows == 2
\* last clock tick
MaxTime == 2

\* longest profile text and longest code handed to the code matcher
MaxTextLen == 3
MaxCodeLen == 2

\* verification_code_ttl_seconds, in clock ticks of the model
TTL == 1

NULL == -1

Requesters == {1, 2}
PlayerIds == {7, 8}

\* secrets.token_hex(3) narrowed to two values, so that codes can collide
Codes == { <<"B", "-", "1">>, <<"B", "-", "2">> }

\* nicknames a requester can claim
ClaimNicks == { <<"F">> }

\* usernames a backend caller can send: <<>> is None, <<s>> is the string s
Usernames == { <<>>, << <<" ", "f">> >>, << <<"g">> >> }

\* characters of the texts handed to the code matcher: letters in both
\* cases, a digit, the underscore and two other separators
MatchChars == {"B", "b", "1", "_", "-", " "}

\* description + " " + status of a profile, as the resolver returns it
ProfileTexts == { <<"b", "1">>, <<"g", " ", "B", "_", "2">> }

VARIABLES verifications, users, now, schema, last, txn, cap,
          events_queue, redis, worker, http,
          purchase_requests, items, balances,
          dialog, bans, resolver, probe, admin_tokens, admins, referrals

\* the ledger table, the transport list, the worker instances and the
\* callback requests in flight
qvars == <<events_queue, redis, worker, http>>

\* the purchase tables
pvars == <<purchase_requests, items, balances>>

\* the dialog of each requester with its cached flags, the is_banned column,
\* the resolver request in flight, the texts handed to the code matcher, the
\* admin tables and the referrals table
xvars == <<dialog, bans, resolver, probe, admin_tokens, admins, referrals>>

vars == <<verifications, users, now, schema, last, txn, cap, qvars, pvars, xvars>>

\* ------------------------------------------------------------ text helpers
LowerChar(c) ==
    CASE c = "B" -> "b"
      [] c = "F" -> "f"
      [] OTHER -> c

Lower(s) == [i \in DOMAIN s |-> LowerChar(s[i])]

IsSpace(c) == c = " "

Strip(s) ==
    LET keep == {i \in DOMAIN s : ~IsSpace(s[i])}
    IN  IF keep = {} THEN <<>>
        ELSE LET lo == CHOOSE i \in keep : \A j \in keep : i <= j
                 hi == CHOOSE i \in keep : \A j \in keep : i >= j
             IN  SubSeq(s, lo, hi)

\* value is <<>> (None) or <<s>>: (value or "").strip().lower()
_normalize(value) ==
    IF value = <<>> THEN <<>> ELSE Lower(Strip(value[1]))

_nicknames_match_NoneIsEmpty(expected, provided) ==
    _normalize(<<expected>>) = _normalize(provided)

_nicknames_match(expected, provided) ==
    IF provided = <<>> THEN TRUE
    ELSE _normalize(<<expected>>) = _normalize(provided)

\* [\W_]+ removes everything that is not a letter or a digit
IsAlnum(c) == c \in {"B", "b", "F", "f", "g", "1", "2"}

normalize_verification_text_KeepUnderscore(value) ==
    IF value = <<>> THEN <<>>
    ELSE LET lowered == Lower(value)
             IsWord(c) == IsAlnum(c) \/ c = "_"
         IN  SelectSeq(lowered, IsWord)

normalize_verification_text(value) ==
    IF value = <<>> THEN <<>>
    ELSE LET lowered == Lower(value)
         IN  SelectSeq(lowered, IsAlnum)

IsSubstring(a, b) ==
    \E i \in 0..(Len(b) - Len(a)) : SubSeq(b, i + 1, i + Len(a)) = a

contains_verification_code(text, code) ==
    LET normalized_text == normalize_verification_text(text)
        normalized_code == normalize_verification_text(code)
    IN  IF normalized_text = <<>> \/ normalized_code = <<>> THEN FALSE
        ELSE IsSubstring(normalized_code, normalized_text)

\* ------------------------------------------------------ storage constraints
Ids(vs) == DOMAIN vs

\* models.py: UniqueConstraint("telegram_id", "status") as created by init_db;
\* after the alembic revision fe6e3f55afd3: unique index on telegram_id
\* WHERE status = 'pending'
VerifConstraintOK_Unconstrained(vs, sch) == TRUE

VerifConstraintOK(vs, sch) ==
    \A i, j \in Ids(vs) :
        (i # j /\ vs[i].telegram_id = vs[j].telegram_id
               /\ vs[i].status = vs[j].status)
            => (sch = "migrated" /\ vs[i].status # "pending")

UsersConstraintOK_Unconstrained(us) == TRUE

\* users.telegram_id unique; users.roblox_id unique (NULLs do not collide)
UsersConstraintOK(us) ==
    \A i, j \in DOMAIN us :
        i # j => /\ us[i].telegram_id # us[j].telegram_id
                 /\ (us[i].roblox_id # NULL => us[i].roblox_id # us[j].roblox_id)

\* the outcome of a transaction: the tables after it and what the caller sees
Outcome(vs, us, status, vid, prev) ==
    [vs |-> vs, us |-> us, status |-> status, vid |-> vid, prev |-> prev]

\* COMMIT: the writes become durable unless a constraint rejects them, in
\* which case IntegrityError is raised and the session is rolled back
Commit(vs, us, status, vid, prev) ==
    IF VerifConstraintOK(vs, schema) /\ UsersConstraintOK(us)
    THEN Outcome(vs, us, status, vid, prev)
    ELSE Outcome(verifications, users, "integrity_error", vid, prev)

NoChange(status, vid) == Outcome(verifications, users, status, vid, NULL)

\* ------------------------------------------------------------------ issue
PendingOf(vs, telegram_id) ==
    {i \in Ids(vs) : vs[i].telegram_id = telegram_id /\ vs[i].status = "pending"}

ExpireRows(vs, ids) ==
    [i \in Ids(vs) |->
        IF i \in ids /\ vs[i].status = "pending"
        THEN [vs[i] EXCEPT !.status = "expired"] ELSE vs[i]]

NewVerification(telegram_id, nickname, code) ==
    [telegram_id |-> telegram_id, roblox_nick |-> nickname, code |-> code,
     status |-> "pending", expires_at |-> now + TTL]

\* UPDATE ... SET status = expired WHERE telegram_id = :id AND status = pending,
\* then INSERT of the new pending row, in one transaction
SupersedeThenInsert(telegram_id, nickname, code) ==
    LET expired == ExpireRows(verifications, PendingOf(verifications, telegram_id))
        inserted == Append(expired, NewVerification(telegram_id, nickname, code))
    IN  Commit(inserted, users, "ok", Len(inserted), NULL)

Apply(op, out) ==
    /\ verifications' = out.vs
    /\ users' = out.us
    /\ last' = [op |-> op, status |-> out.status, prev |-> out.prev]

\* ------------------------------------------------------------ confirmation
\* the row a SELECT ... ORDER BY created_at DESC returns first; 0 when none
Latest(ids) == IF ids = {} THEN 0 ELSE CHOOSE i \in ids : \A j \in ids : j <= i

WithCode(vs, code) == {i \in Ids(vs) : vs[i].code = code}

UserOf(us, telegram_id) ==
    LET found == {i \in DOMAIN us : us[i].telegram_id = telegram_id}
    IN  IF found = {} THEN 0 ELSE CHOOSE i \in found : \A j \in found : i <= j

BoundTo(us, telegram_id) ==
    IF UserOf(us, telegram_id) = 0 THEN NULL ELSE us[UserOf(us, telegram_id)].roblox_id

\* load_user: bool(user and user.verified_at)
IsVerified(us, telegram_id) ==
    /\ UserOf(us, telegram_id) # 0
    /\ us[UserOf(us, telegram_id)].verified_at # NULL

\* handlers.py ask_nickname: a requester who is not verified yet gets a code
\* from create_verification_request
ask_nickname(telegram_id, nickname, code) ==
    /\ ~IsVerified(users, telegram_id)
    /\ Len(verifications) < cap
    /\ Apply("issue", SupersedeThenInsert(telegram_id, nickname, code))
    /\ UNCHANGED <<now, schema, txn, cap, xvars, qvars, pvars>>

\* main.py confirm_nickname, "confirm_nick_yes": a requester who is not
\* verified yet gets a code from _issue_verification_code
confirm_nickname(telegram_id, nickname, code) ==
    /\ ~IsVerified(users, telegram_id)
    /\ Len(verifications) < cap
    /\ Apply("issue", SupersedeThenInsert(telegram_id, nickname, code))
    /\ UNCHANGED <<now, schema, txn, cap, xvars, qvars, pvars>>

NewUser(telegram_id, player_id) ==
    [telegram_id |-> telegram_id, roblox_id |-> player_id,
     verified_at |-> now, last_active |-> now]

\* service.py: an existing user gets roblox_id, verified_at and last_active
UpsertTouching_KeepBinding(us, telegram_id, player_id) ==
    LET u == UserOf(us, telegram_id)
    IN  IF u = 0 THEN Append(us, NewUser(telegram_id, player_id))
        ELSE [us EXCEPT ![u].verified_at = now, ![u].last_active = now]

UpsertTouching(us, telegram_id, player_id) ==
    LET u == UserOf(us, telegram_id)
    IN  IF u = 0 THEN Append(us, NewUser(telegram_id, player_id))
        ELSE [us EXCEPT ![u].roblox_id = player_id, ![u].verified_at = now,
                        ![u].last_active = now]

\* worker.py and main.py: an existing user gets roblox_id and verified_at only
Upsert_AlwaysInsert(us, telegram_id, player_id) ==
    Append(us, NewUser(telegram_id, player_id))

Upsert(us, telegram_id, player_id) ==
    LET u == UserOf(us, telegram_id)
    IN  IF u = 0 THEN Append(us, NewUser(telegram_id, player_id))
        ELSE [us EXCEPT ![u].roblox_id = player_id, ![u].verified_at = now]

MarkUsed(vs, i) == [vs EXCEPT ![i].status = "used", ![i].expires_at = now]

MarkExpired(vs, i) == [vs EXCEPT ![i].status = "expired"]

BackendConfirmation(username, code, player_id) ==
    LET v == Latest(WithCode(verifications, code))
    IN  IF v = 0 THEN NoChange("not_found", 0)
        ELSE LET row == verifications[v]
             IN  IF row.status = "used" THEN NoChange("already_verified", v)
                 ELSE IF row.expires_at < now
                      THEN Commit(MarkExpired(verifications, v), users, "expired", v, NULL)
                 ELSE IF ~_nicknames_match(row.roblox_nick, username)
                      THEN NoChange("mismatch", v)
                 ELSE Commit(MarkUsed(verifications, v),
                             UpsertTouching(users, row.telegram_id, player_id),
                             "verified", v, BoundTo(users, row.telegram_id))

process_backend_confirmation(username, code, player_id) ==
    /\ Apply("backend", BackendConfirmation(username, code, player_id))
    /\ UNCHANGED <<now, schema, txn, cap, xvars, qvars, pvars>>

\* worker.py: the SELECT has no ORDER BY, so any pending row with the code
\* can be the one returned
WorkerCandidates(code) ==
    {i \in Ids(verifications) :
        verifications[i].code = code /\ verifications[i].status = "pending"}

WorkerConfirmation_UsedOnly(v, player_id) ==
    IF v = 0 THEN NoChange("none", 0)
    ELSE LET row == verifications[v]
         IN  IF row.expires_at < now
             THEN Commit(MarkExpired(verifications, v), users, "expired", v, NULL)
             ELSE Commit(MarkUsed(verifications, v), users,
                         "verified", v, BoundTo(users, row.telegram_id))

WorkerConfirmation(v, player_id) ==
    IF v = 0 THEN NoChange("none", 0)
    ELSE LET row == verifications[v]
         IN  IF row.expires_at < now
             THEN Commit(MarkExpired(verifications, v), users, "expired", v, NULL)
             ELSE Commit(MarkUsed(verifications, v),
                         Upsert(users, row.telegram_id, player_id),
                         "verified", v, BoundTo(users, row.telegram_id))

WorkerChoices(code) ==
    IF WorkerCandidates(code) = {} THEN {0} ELSE WorkerCandidates(code)

handle_verification(code, player_id) ==
    /\ \E v \in WorkerChoices(code) :
           Apply("worker", WorkerConfirmation(v, player_id))
    /\ UNCHANGED <<now, schema, txn, cap, xvars, qvars, pvars>>

\* main.py: the self-poll.  fetch is what fetch_profile_by_nickname does:
\* raises RobloxProfileNotFound, raises RobloxServiceError, or returns a profile
Fetches ==
    {[kind |-> "not_found", user_id |-> NULL, text |-> <<>>],
     [kind |-> "service_error", user_id |-> NULL, text |-> <<>>]}
    \cup [kind : {"profile"}, user_id : PlayerIds, text : ProfileTexts]

PollConfirmation_ExpireOnMiss(telegram_id, fetch) ==
    LET v == Latest(PendingOf(verifications, telegram_id))
    IN  IF v = 0 THEN NoChange("no_active", 0)
        ELSE LET row == verifications[v]
             IN  IF row.expires_at < now
                 THEN Commit(MarkExpired(verifications, v), users, "expired", v, NULL)
                 ELSE IF /\ fetch.kind = "profile"
                         /\ contains_verification_code(fetch.text, row.code)
                      THEN Commit(MarkUsed(verifications, v),
                                  Upsert(users, row.telegram_id, fetch.user_id),
                                  "verified", v, BoundTo(users, row.telegram_id))
                 ELSE Commit(MarkExpired(verifications, v), users,
                             "code_not_found", v, NULL)

PollConfirmation(telegram_id, fetch) ==
    LET v == Latest(PendingOf(verifications, telegram_id))
    IN  IF v = 0 THEN NoChange("no_active", 0)
        ELSE LET row == verifications[v]
             IN  IF row.expires_at < now
                 THEN Commit(MarkExpired(verifications, v), users, "expired", v, NULL)
                 ELSE IF fetch.kind = "not_found" THEN NoChange("profile_not_found", v)
                 ELSE IF fetch.kind = "service_error" THEN NoChange("unavailable", v)
                 ELSE IF contains_verification_code(fetch.text, row.code)
                      THEN Commit(MarkUsed(verifications, v),
                                  Upsert(users, row.telegram_id, fetch.user_id),
                                  "verified", v, BoundTo(users, row.telegram_id))
                 ELSE NoChange("code_not_found", v)

check_verification_status(telegram_id, fetch) ==
    /\ Apply("poll", PollConfirmation(telegram_id, fetch))
    /\ UNCHANGED <<now, schema, txn, cap, xvars, qvars, pvars>>

\* service.py expire_verification
ExpireVerification(verification_id) ==
    IF /\ verification_id \in Ids(verifications)
       /\ verifications[verification_id].status = "pending"
    THEN Commit(MarkExpired(verifications, verification_id), users,
                "expired", verification_id, NULL)
    ELSE NoChange("noop", verification_id)

\* handlers.py check_status: get_latest_verification, then expire_verification
\* when the latest attempt is pending and past its TTL
OfRequester(vs, telegram_id) == {i \in Ids(vs) : vs[i].telegram_id = telegram_id}

StatusCheck(telegram_id) ==
    LET v == Latest(OfRequester(verifications, telegram_id))
    IN  IF v = 0 THEN NoChange("no_active", 0)
        ELSE IF verifications[v].status = "pending" /\ verifications[v].expires_at < now
             THEN ExpireVerification(v)
        ELSE NoChange(verifications[v].status, v)

check_status(telegram_id) ==
    /\ Apply("check_status", StatusCheck(telegram_id))
    /\ UNCHANGED <<now, schema, txn, cap, xvars, qvars, pvars>>

\* service.py fetch_status_for_username: the latest attempt whose roblox_nick,
\* lower-cased, equals the normalized username, whoever the requester is.
\* The username is a string here (the payload's field is required).
WithNick(vs, normalized) ==
    {i \in Ids(vs) : Lower(vs[i].roblox_nick) = normalized}

StatusForUsername_Earliest(username) ==
    LET found == WithNick(verifications, _normalize(<<username>>))
    IN  IF found = {} THEN "not_found"
        ELSE LET row == verifications[CHOOSE i \in found : \A j \in found : i <= j]
             IN  IF row.status = "used" THEN "verified"
                 ELSE IF row.status = "pending" /\ row.expires_at >= now THEN "pending"
                 ELSE "expired"

StatusForUsername(username) ==
    LET v == Latest(WithNick(verifications, _normalize(<<username>>)))
    IN  IF v = 0 THEN "not_found"
        ELSE IF verifications[v].status = "used" THEN "verified"
        ELSE IF verifications[v].status = "pending" /\ verifications[v].expires_at >= now
             THEN "pending"
        ELSE "expired"

\* nothing is written: the session is closed without a commit
fetch_status_for_username(username) ==
    /\ last' = [op |-> "status", status |-> StatusForUsername(username),
                prev |-> NULL]
    /\ UNCHANGED <<verifications, users, now, schema, txn, cap, xvars, qvars, pvars>>

\* ------------------------------------------------------------ environment
Tick ==
    /\ now < MaxTime
    /\ now' = now + 1
    /\ UNCHANGED <<verifications, users, schema, last, txn, cap, xvars, qvars, pvars>>

\* alembic upgrade head: the composite constraint is replaced by the
\* partial unique index
upgrade ==
    /\ schema = "create_all"
    /\ schema' = "migrated"
    /\ UNCHANGED <<verifications, users, now, last, txn, cap, xvars, qvars, pvars>>


\* ------------------------------------------- issue as an open transaction
\* Handler instances share only the database.  An instance's transaction is
\* open from its UPDATE (which sees the rows pending at that moment) to its
\* COMMIT; the UPDATE leaves alone a row that another transaction has expired
\* in the meantime, and the INSERT is checked against what is committed.
Instances == {1, 2}

IdleTxn ==
    [pc |-> "idle", telegram_id |-> 0, nickname |-> <<>>, code |-> <<>>,
     expires_at |-> NULL, seen |-> {}, raced |-> FALSE]

OpenTxns == {q \in Instances : txn[q].pc = "open"}

IssueBegin(p, telegram_id, nickname, code) ==
    /\ txn[p].pc # "open"
    /\ ~IsVerified(users, telegram_id)
    /\ Len(verifications) + Cardinality(OpenTxns) < cap
    /\ txn' = [txn EXCEPT ![p] =
                 [pc |-> "open", telegram_id |-> telegram_id, nickname |-> nickname,
                  code |-> code, expires_at |-> now + TTL,
                  seen |-> PendingOf(verifications, telegram_id), raced |-> FALSE]]
    /\ UNCHANGED <<verifications, users, now, schema, last, cap, xvars, qvars, pvars>>

IssueOutcome(t) ==
    LET expired == ExpireRows(verifications, t.seen)
        row == [telegram_id |-> t.telegram_id, roblox_nick |-> t.nickname,
                code |-> t.code, status |-> "pending", expires_at |-> t.expires_at]
        inserted == Append(expired, row)
    IN  Commit(inserted, users, "ok", Len(inserted), NULL)

IssueCommit(p) ==
    /\ txn[p].pc = "open"
    /\ LET out == IssueOutcome(txn[p])
       IN  /\ Apply("issue", out)
           /\ txn' = [q \in Instances |->
                        IF q = p
                        THEN [txn[q] EXCEPT !.pc = IF out.status = "ok"
                                                   THEN "committed" ELSE "rolled_back"]
                        ELSE IF /\ txn[q].pc = "open"
                                /\ txn[q].telegram_id = txn[p].telegram_id
                                /\ out.status = "ok"
                             THEN [txn[q] EXCEPT !.raced = TRUE]
                        ELSE txn[q]]
    /\ UNCHANGED <<now, schema, cap, xvars, qvars, pvars>>

\* ------------------------------------------------ event queue and ledger
\* An event id is a pair: <<"evt", n>> is the sender's eventId "evt-n",
\* <<"purchase", id>> is the string "purchase:<request_id>".
EventIds == { <<"evt", 1>>, <<"evt", 2>> }

\* player ids the sender of callbacks reports
CallbackPlayers == {7}

PurchaseEventId(request_id) == <<"purchase", request_id>>

\* the dict verify_callback builds: type "verification" and the payload
VerificationEvent(event_id, code, player_id) ==
    [type |-> "verification", event_id |-> event_id, code |-> code,
     player_id |-> player_id, request_id |-> 0]

\* the dict the purchase command pushes: type "purchase" and the request id
PurchaseEvent(request_id) ==
    [type |-> "purchase", event_id |-> <<>>, code |-> <<>>,
     player_id |-> NULL, request_id |-> request_id]

\* an item some other producer left on the list, of a type the worker
\* does not know
ForeignEvent ==
    [type |-> "other", event_id |-> <<>>, code |-> <<>>,
     player_id |-> NULL, request_id |-> 0]

NoEvent ==
    [type |-> "none", event_id |-> <<>>, code |-> <<>>,
     player_id |-> NULL, request_id |-> 0]

\* EventQueue(event_id, payload); pushed counts the rpush calls made for the
\* row's event (history, not a column)
LedgerRow(event_id, event) ==
    [event_id |-> event_id, payload |-> event, processed_at |-> NULL, pushed |-> 0]

LedgerIds(eq, event_id) == {i \in DOMAIN eq : eq[i].event_id = event_id}

\* events_queue.event_id is unique
LedgerConstraintOK_Unconstrained(eq) == TRUE

LedgerConstraintOK(eq) ==
    \A i, j \in DOMAIN eq : i # j => eq[i].event_id # eq[j].event_id

CountPush(eq, event_id) ==
    [i \in DOMAIN eq |->
        IF eq[i].event_id = event_id
        THEN [eq[i] EXCEPT !.pushed = eq[i].pushed + 1] ELSE eq[i]]

\* the answers of verify_callback: "в_очереди" and "дубликат"
StatusQueued == "v_ocheredi"

StatusDuplicate == "dublikat"

IdleHttp == [pc |-> "idle", event |-> NoEvent, response |-> "none"]

\* verify_callback up to the end of the session block: a correctly signed
\* callback inserts its ledger row and commits; IntegrityError is answered
\* with the duplicate status
verify_callback_commit(h, event_id, code, player_id) ==
    /\ http[h].pc = "idle"
    /\ LET event == VerificationEvent(event_id, code, player_id)
           inserted == Append(events_queue, LedgerRow(event_id, event))
       IN  IF LedgerConstraintOK(inserted)
           THEN /\ events_queue' = inserted
                /\ http' = [http EXCEPT ![h] =
                              [pc |-> "committed", event |-> event, response |-> "none"]]
           ELSE /\ events_queue' = events_queue
                /\ http' = [http EXCEPT ![h] =
                              [pc |-> "idle", event |-> NoEvent,
                               response |-> StatusDuplicate]]
    /\ UNCHANGED <<verifications, users, now, schema, last, txn, cap, xvars, redis, worker, pvars>>

\* enqueue_event: rpush of the event
enqueue_event(rs, event) == Append(rs, event)

\* verify_callback after the session block: push, then answer queued
verify_callback_push(h) ==
    /\ http[h].pc = "committed"
    /\ redis' = enqueue_event(redis, http[h].event)
    /\ events_queue' = CountPush(events_queue, http[h].event.event_id)
    /\ http' = [http EXCEPT ![h] =
                  [pc |-> "idle", event |-> NoEvent, response |-> StatusQueued]]
    /\ UNCHANGED <<verifications, users, now, schema, last, txn, cap, xvars, worker, pvars>>

\* the request dies between the ledger commit and the push (process killed,
\* transport unreachable: enqueue_event raises)
verify_callback_crash(h) ==
    /\ http[h].pc = "committed"
    /\ http' = [http EXCEPT ![h] = IdleHttp]
    /\ UNCHANGED <<verifications, users, now, schema, last, txn, cap, xvars,
                   events_queue, redis, worker, pvars>>

\* another producer pushes an item of a type the worker does not dispatch
MaxForeign == 1

foreign_push ==
    /\ Len(SelectSeq(redis, LAMBDA e : e.type = "other")) < MaxForeign
    /\ \A w \in DOMAIN worker : worker[w].event.type # "other"
    /\ redis' = enqueue_event(redis, ForeignEvent)
    /\ UNCHANGED <<verifications, users, now, schema, last, txn, cap, xvars,
                   events_queue, worker, http, pvars>>

\* ------------------------------------------------------------- purchases
\* The tables are those of the models; a foreign key is not checked (the
\* tests run on SQLite, where a request of a user without a users row is
\* stored), and the rows of admin_actions_log, which no handler reads back,
\* are left out.
\* item ids a buyer can name; "wig" is not in the catalogue
ItemArgs == {"hat", "cap", "wig"}

IdempotencyKeys == {"k1", "k2"}

\* copies of the limited item
MaxCopies == 1

\* purchase requests the table may hold
MaxRequests == 2

\* the catalogue: a limited item and an unlimited one (copies_total NULL)
Catalogue ==
    [i \in {"hat", "cap"} |->
        [copies_total |-> IF i = "hat" THEN MaxCopies ELSE NULL, copies_sold |-> 0]]

WithKey(prs, idempotency_key) ==
    {i \in DOMAIN prs : prs[i].idempotency_key = idempotency_key}

SoldOut_Never(item) == FALSE

SoldOut(item) ==
    item.copies_total # NULL /\ item.copies_sold >= item.copies_total

\* PurchaseRequest(request_id, user_id, item_id, idempotency_key); the request
\* id is a fresh token, here the row's index
NewRequest(request_id, user_id, item_id, idempotency_key) ==
    [request_id |-> request_id, user_id |-> user_id, item_id |-> item_id,
     status |-> "pending", idempotency_key |-> idempotency_key,
     completed_at |-> NULL]

create_purchase_request_NoLookup(prs, its, request_id, user_id, item_id, idempotency_key) ==
    IF item_id \notin DOMAIN its
    THEN [status |-> "raised", error |-> "Item not found", request_id |-> 0, prs |-> prs]
    ELSE IF SoldOut(its[item_id])
    THEN [status |-> "raised", error |-> "Item sold out", request_id |-> 0, prs |-> prs]
    ELSE [status |-> "created", error |-> "", request_id |-> request_id,
          prs |-> Append(prs, NewRequest(request_id, user_id, item_id, idempotency_key))]

\* create_purchase_request: [status, request_id, prs]; status "raised" is the
\* ValueError, with its message in error
create_purchase_request(prs, its, request_id, user_id, item_id, idempotency_key) ==
    IF WithKey(prs, idempotency_key) # {}
    THEN [status |-> "existing", error |-> "",
          request_id |-> prs[CHOOSE i \in WithKey(prs, idempotency_key) : TRUE].request_id,
          prs |-> prs]
    ELSE IF item_id \notin DOMAIN its
    THEN [status |-> "raised", error |-> "Item not found", request_id |-> 0, prs |-> prs]
    ELSE IF SoldOut(its[item_id])
    THEN [status |-> "raised", error |-> "Item sold out", request_id |-> 0, prs |-> prs]
    ELSE [status |-> "created", error |-> "", request_id |-> request_id,
          prs |-> Append(prs, NewRequest(request_id, user_id, item_id, idempotency_key))]

\* the /buy command: the request and its ledger row are committed together,
\* then the event is pushed.  Only ValueError is caught; the IntegrityError of
\* the commit reaches the caller.
purchase(user_id, item_id, idempotency_key) ==
    /\ (WithKey(purchase_requests, idempotency_key) # {}
          \/ Len(purchase_requests) < MaxRequests)
    /\ LET created == create_purchase_request(purchase_requests, items,
                          Len(purchase_requests) + 1, user_id, item_id, idempotency_key)
           event == PurchaseEvent(created.request_id)
           inserted == Append(events_queue,
                              LedgerRow(PurchaseEventId(created.request_id), event))
       IN  IF created.status = "raised"
           THEN /\ last' = [op |-> "purchase", status |-> created.error, prev |-> NULL]
                /\ UNCHANGED <<purchase_requests, events_queue, redis>>
           ELSE IF ~LedgerConstraintOK(inserted)
           THEN /\ last' = [op |-> "purchase", status |-> "integrity_error", prev |-> NULL]
                /\ UNCHANGED <<purchase_requests, events_queue, redis>>
           ELSE /\ purchase_requests' = created.prs
                /\ events_queue' =
                       CountPush(inserted, PurchaseEventId(created.request_id))
                /\ redis' = enqueue_event(redis, event)
                /\ last' = [op |-> "purchase", status |-> "ok", prev |-> NULL]
    /\ UNCHANGED <<verifications, users, now, schema, txn, cap, xvars, worker, http,
                   items, balances>>

\* purchase_requests.idempotency_key is unique
RequestsConstraintOK(prs) ==
    \A i, j \in DOMAIN prs : i # j => prs[i].idempotency_key # prs[j].idempotency_key

\* The /buy command as an open transaction of a handler instance: from the
\* SELECT by idempotency key (which sees what is committed) to the flush of
\* the INSERT and the COMMIT.  found is the row the SELECT returned, 0 for
\* none; the INSERT is checked against what is committed when it is flushed.
BuyTxns == {q \in Instances : txn[q].pc = "looked_up"}

purchase_lookup(p, user_id, item_id, idempotency_key) ==
    /\ txn[p].pc = "idle"
    /\ Len(purchase_requests) + Cardinality(BuyTxns) < MaxRequests
    /\ LET looked == create_purchase_request(purchase_requests, items, 0,
                                             user_id, item_id, idempotency_key)
       IN  IF looked.status = "raised"
           THEN /\ last' = [op |-> "purchase", status |-> looked.error, prev |-> NULL]
                /\ txn' = txn
           ELSE /\ txn' = [txn EXCEPT ![p] =
                             [pc |-> "looked_up", user_id |-> user_id,
                              item_id |-> item_id,
                              idempotency_key |-> idempotency_key,
                              found |-> looked.request_id]]
                /\ last' = last
    /\ UNCHANGED <<verifications, users, now, schema, cap, xvars, qvars, pvars>>

purchase_commit(p) ==
    /\ txn[p].pc = "looked_up"
    /\ LET request_id == IF txn[p].found # 0 THEN txn[p].found
                         ELSE Len(purchase_requests) + 1
           prs == IF txn[p].found # 0 THEN purchase_requests
                  ELSE Append(purchase_requests,
                              NewRequest(request_id, txn[p].user_id, txn[p].item_id,
                                         txn[p].idempotency_key))
           event == PurchaseEvent(request_id)
           inserted == Append(events_queue,
                              LedgerRow(PurchaseEventId(request_id), event))
       IN  IF ~RequestsConstraintOK(prs) \/ ~LedgerConstraintOK(inserted)
           THEN /\ last' = [op |-> "purchase", status |-> "integrity_error", prev |-> NULL]
                /\ UNCHANGED <<purchase_requests, events_queue, redis>>
           ELSE /\ purchase_requests' = prs
                /\ events_queue' = CountPush(inserted, PurchaseEventId(request_id))
                /\ redis' = enqueue_event(redis, event)
                /\ last' = [op |-> "purchase", status |-> "ok", prev |-> NULL]
    /\ txn' = [txn EXCEPT ![p] = IdleTxn]
    /\ UNCHANGED <<verifications, users, now, schema, cap, xvars, worker, http,
                   items, balances>>

confirm_purchase_Reconfirm(prs, its, bal, request_id) ==
    IF request_id \notin DOMAIN prs
    THEN [result |-> "none", prs |-> prs, its |-> its, bal |-> bal]
    ELSE IF prs[request_id].status = "cancelled"
    THEN [result |-> "none", prs |-> prs, its |-> its, bal |-> bal]
    ELSE LET item_id == prs[request_id].item_id
         IN  [result |-> "confirmed",
              prs |-> [prs EXCEPT ![request_id].status = "confirmed",
                                  ![request_id].completed_at = now],
              its |-> [its EXCEPT ![item_id].copies_sold = @ + 1],
              bal |-> bal \cup {prs[request_id].user_id}]

\* confirm_purchase: what it returns ("none" is None) and the session's
\* tables when it returns, not yet committed
confirm_purchase(prs, its, bal, request_id) ==
    IF request_id \notin DOMAIN prs
    THEN [result |-> "none", prs |-> prs, its |-> its, bal |-> bal]
    ELSE IF prs[request_id].status = "confirmed"
    THEN [result |-> "confirmed", prs |-> prs, its |-> its, bal |-> bal]
    ELSE IF prs[request_id].status # "pending"
    THEN [result |-> "none", prs |-> prs, its |-> its, bal |-> bal]
    ELSE IF prs[request_id].item_id \notin DOMAIN its
    THEN [result |-> "none", prs |-> prs, its |-> its, bal |-> bal]
    ELSE LET item_id == prs[request_id].item_id
             flushed == bal \cup {prs[request_id].user_id}
         IN  IF SoldOut(its[item_id])
             THEN [result |-> "cancelled",
                   prs |-> [prs EXCEPT ![request_id].status = "cancelled"],
                   its |-> its, bal |-> flushed]
             ELSE [result |-> "confirmed",
                   prs |-> [prs EXCEPT ![request_id].status = "confirmed",
                                       ![request_id].completed_at = now],
                   its |-> [its EXCEPT ![item_id].copies_sold = @ + 1],
                   bal |-> flushed]

cancel_purchase_Always(request_id) ==
    /\ request_id \in DOMAIN purchase_requests
    /\ purchase_requests' = [purchase_requests EXCEPT ![request_id].status = "cancelled"]
    /\ last' = [op |-> "cancel", status |-> "cancelled", prev |-> NULL]
    /\ UNCHANGED <<verifications, users, now, schema, txn, cap, xvars, qvars, items, balances>>

\* cancel_purchase, committed by its caller
cancel_purchase(request_id) ==
    /\ request_id \in DOMAIN purchase_requests
    /\ purchase_requests' =
           IF purchase_requests[request_id].status = "pending"
           THEN [purchase_requests EXCEPT ![request_id].status = "cancelled"]
           ELSE purchase_requests
    /\ last' = [op |-> "cancel", status |-> purchase_requests'[request_id].status,
                prev |-> NULL]
    /\ UNCHANGED <<verifications, users, now, schema, txn, cap, xvars, qvars, items, balances>>

\* a purchase event is delivered again: the item of a ledger row is pushed
\* once more (a replay from the ledger, or a transport that repeats itself)
MaxReplay == 1

replay_push(request_id) ==
    /\ \E i \in LedgerIds(events_queue, PurchaseEventId(request_id)) :
           /\ events_queue[i].pushed >= 1
           /\ events_queue[i].pushed < 1 + MaxReplay
    /\ events_queue' = CountPush(events_queue, PurchaseEventId(request_id))
    /\ redis' = enqueue_event(redis, PurchaseEvent(request_id))
    /\ UNCHANGED <<verifications, users, now, schema, last, txn, cap, xvars,
                   worker, http, pvars>>

\* ----------------------------------------------------------- worker loop
Workers == {1, 2}

\* v is the attempt the handler selected and expired what it saw of its TTL;
\* failed says that the loop has caught and logged an exception since the
\* process started
IdleWorker ==
    [pc |-> "idle", event |-> NoEvent, v |-> 0, expired |-> FALSE, failed |-> FALSE]

\* the top of the loop, in the same process
LoopAgain(w) == [IdleWorker EXCEPT !.failed = worker[w].failed]

\* dequeue_event: blpop takes the first item off the list
dequeue_event(w) ==
    /\ worker[w].pc = "idle"
    /\ redis # <<>>
    /\ redis' = Tail(redis)
    /\ worker' = [worker EXCEPT ![w] = [worker[w] EXCEPT !.pc = "dispatch",
                                                         !.event = Head(redis)]]
    /\ UNCHANGED <<verifications, users, now, schema, last, txn, cap, xvars,
                   events_queue, http, pvars>>

\* handle_verification up to its first write: the SELECT of a pending attempt
\* with the code and the TTL test; without a row it commits and returns
handle_verification_select(w) ==
    /\ worker[w].pc = "dispatch"
    /\ worker[w].event.type = "verification"
    /\ \E v \in WorkerChoices(worker[w].event.code) :
           worker' = [worker EXCEPT ![w] =
                        IF v = 0 THEN [worker[w] EXCEPT !.pc = "returned"]
                        ELSE [worker[w] EXCEPT
                                 !.pc = "selected", !.v = v,
                                 !.expired = (verifications[v].expires_at < now)]]
    /\ UNCHANGED <<verifications, users, now, schema, last, txn, cap, xvars,
                   events_queue, redis, http, pvars>>

\* the writes of handle_verification on the attempt it selected, by primary
\* key, whatever the row's status has become since
WorkerWrite(v, expired, player_id) ==
    IF expired
    THEN Commit(MarkExpired(verifications, v), users, "expired", v, NULL)
    ELSE Commit(MarkUsed(verifications, v),
                Upsert(users, verifications[v].telegram_id, player_id),
                "verified", v, BoundTo(users, verifications[v].telegram_id))

HandlerRaises_Never(w) == FALSE

HandlerRaises(w) ==
    WorkerWrite(worker[w].v, worker[w].expired, worker[w].event.player_id).status
        = "integrity_error"

handle_verification_commit_Stops(w) ==
    /\ worker[w].pc = "selected"
    /\ Apply("worker", WorkerWrite(worker[w].v, worker[w].expired,
                                   worker[w].event.player_id))
    /\ worker' = [worker EXCEPT ![w] =
                    IF HandlerRaises(w)
                    THEN [IdleWorker EXCEPT !.failed = TRUE, !.pc = "stopped"]
                    ELSE [worker[w] EXCEPT !.pc = "returned"]]
    /\ UNCHANGED <<now, schema, txn, cap, xvars, events_queue, redis, http, pvars>>

\* handle_verification from its first write to the commit.  The UPDATE of the
\* attempt is flushed before the user is read and holds the row until the
\* commit, so the rest of the handler is one step.  An IntegrityError leaves
\* the handler as an exception: worker_loop logs it, sleeps and goes on.
handle_verification_commit(w) ==
    /\ worker[w].pc = "selected"
    /\ Apply("worker", WorkerWrite(worker[w].v, worker[w].expired,
                                   worker[w].event.player_id))
    /\ worker' = [worker EXCEPT ![w] =
                    IF HandlerRaises(w) THEN [IdleWorker EXCEPT !.failed = TRUE]
                    ELSE [worker[w] EXCEPT !.pc = "returned"]]
    /\ UNCHANGED <<now, schema, txn, cap, xvars, events_queue, redis, http, pvars>>

handle_purchase_AlwaysCommit(w) ==
    /\ worker[w].pc = "dispatch"
    /\ worker[w].event.type = "purchase"
    /\ LET got == confirm_purchase(purchase_requests, items, balances,
                                   worker[w].event.request_id)
       IN  /\ purchase_requests' = got.prs
           /\ items' = got.its
           /\ balances' = got.bal
    /\ worker' = [worker EXCEPT ![w].pc = "returned"]
    /\ UNCHANGED <<verifications, users, now, schema, last, txn, cap, xvars,
                   events_queue, redis, http>>

\* handle_purchase: commit when confirm_purchase returns a confirmed request,
\* roll back otherwise
handle_purchase(w) ==
    /\ worker[w].pc = "dispatch"
    /\ worker[w].event.type = "purchase"
    /\ LET got == confirm_purchase(purchase_requests, items, balances,
                                   worker[w].event.request_id)
       IN  IF got.result = "confirmed"
           THEN /\ purchase_requests' = got.prs
                /\ items' = got.its
                /\ balances' = got.bal
           ELSE UNCHANGED <<purchase_requests, items, balances>>
    /\ worker' = [worker EXCEPT ![w].pc = "returned"]
    /\ UNCHANGED <<verifications, users, now, schema, last, txn, cap, xvars,
                   events_queue, redis, http>>

\* handle_purchase as an open transaction of a worker.  confirm_purchase
\* reads the request, the item and the balance with plain SELECTs; its
\* writes are flushed by primary key at the commit: the status and
\* completed_at of the request, the copies_sold the session computed from
\* what it read, and the balance row.
handle_purchase_read(w) ==
    /\ worker[w].pc = "dispatch"
    /\ worker[w].event.type = "purchase"
    /\ txn' = [txn EXCEPT ![w] =
                 [pc |-> "read", request_id |-> worker[w].event.request_id,
                  read |-> [prs |-> purchase_requests, its |-> items,
                            bal |-> balances],
                  got |-> confirm_purchase(purchase_requests, items, balances,
                                           worker[w].event.request_id)]]
    /\ worker' = [worker EXCEPT ![w].pc = "confirming"]
    /\ UNCHANGED <<verifications, users, now, schema, last, cap, xvars,
                   events_queue, redis, http, pvars>>

\* the session has something to write and commits it
PurchaseWrites(t) == t.got.result = "confirmed" /\ t.got.prs # t.read.prs

\* the INSERT of a balance row that another transaction has committed since
BalanceCollides(t) ==
    /\ t.got.bal # t.read.bal
    /\ (t.got.bal \ t.read.bal) \cap balances # {}

\* the item row has been written by another transaction since it was read
ItemStale(t) ==
    LET item_id == t.read.prs[t.request_id].item_id
    IN  items[item_id] # t.read.its[item_id]

\* What the commit does to a transaction whose item row is stale is the
\* database's: it applies the UPDATE as flushed (read committed) or rejects
\* the transaction (a lock or serialization failure); both are allowed here.
handle_purchase_commit(w) ==
    /\ worker[w].pc = "confirming"
    /\ txn' = [txn EXCEPT ![w] = IdleTxn]
    /\ LET t == txn[w]
           id == t.request_id
           applied ==
               LET item_id == t.read.prs[id].item_id
               IN  /\ purchase_requests' =
                          [purchase_requests EXCEPT ![id] = t.got.prs[id]]
                   /\ items' = [items EXCEPT ![item_id] = t.got.its[item_id]]
                   /\ balances' = balances \cup t.got.bal
                   /\ last' = [op |-> "handle_purchase", status |-> "confirmed",
                               prev |-> NULL]
                   /\ worker' = [worker EXCEPT ![w].pc = "returned"]
           rolled_back ==
               /\ UNCHANGED <<purchase_requests, items, balances, last>>
               /\ worker' = [worker EXCEPT ![w].pc = "returned"]
           raised ==
               /\ UNCHANGED <<purchase_requests, items, balances>>
               /\ last' = [op |-> "handle_purchase", status |-> "raised",
                           prev |-> NULL]
               /\ worker' = [worker EXCEPT ![w] =
                                [IdleWorker EXCEPT !.failed = TRUE]]
       IN  IF BalanceCollides(t) THEN raised
           ELSE IF ~PurchaseWrites(t) THEN rolled_back
           ELSE IF ItemStale(t) THEN applied \/ raised
           ELSE applied
    /\ UNCHANGED <<verifications, users, now, schema, cap, xvars,
                   events_queue, redis, http>>

\* the event id worker_loop passes to mark_event_processed
ProcessedEventId(event) ==
    IF event.type = "purchase" THEN PurchaseEventId(event.request_id)
    ELSE event.event_id

MarkProcessed(eq, event_id) ==
    [i \in DOMAIN eq |->
        IF eq[i].event_id = event_id
        THEN [eq[i] EXCEPT !.processed_at = now] ELSE eq[i]]

\* worker_loop after the handler has returned: mark_event_processed
mark_event_processed(w) ==
    /\ worker[w].pc = "returned"
    /\ events_queue' = MarkProcessed(events_queue, ProcessedEventId(worker[w].event))
    /\ worker' = [worker EXCEPT ![w] = LoopAgain(w)]
    /\ UNCHANGED <<verifications, users, now, schema, last, txn, cap, xvars,
                   redis, http, pvars>>

drop_unknown_Requeue(w) ==
    /\ worker[w].pc = "dispatch"
    /\ worker[w].event.type \notin {"verification", "purchase"}
    /\ worker' = [worker EXCEPT ![w] = LoopAgain(w)]
    /\ redis' = Append(redis, worker[w].event)
    /\ last' = [op |-> "worker_loop", status |-> "unknown_event_type", prev |-> NULL]
    /\ UNCHANGED <<verifications, users, now, schema, txn, cap, xvars,
                   events_queue, http, pvars>>

\* worker_loop, else branch: an unknown type is logged, nothing more
drop_unknown(w) ==
    /\ worker[w].pc = "dispatch"
    /\ worker[w].event.type \notin {"verification", "purchase"}
    /\ worker' = [worker EXCEPT ![w] = LoopAgain(w)]
    /\ last' = [op |-> "worker_loop", status |-> "unknown_event_type", prev |-> NULL]
    /\ UNCHANGED <<verifications, users, now, schema, txn, cap, xvars,
                   events_queue, redis, http, pvars>>

\* the worker process dies while it holds an event and is started again
worker_crash(w) ==
    /\ worker[w].pc # "idle"
    /\ worker' = [worker EXCEPT ![w] = IdleWorker]
    /\ UNCHANGED <<verifications, users, now, schema, last, txn, cap, xvars,
                   events_queue, redis, http, pvars>>

\* ------------------------------------------------------------ idle values
\* context.user_data of a requester who never wrote to the bot, and the
\* state of the conversation before its entry point
\* handler and reply are the conversation handler that ran last for the
\* requester and what it answered (the self-poll's answer is last.status)
IdleDialog ==
    [state |-> "END", is_verified |-> "None", is_banned |-> "None",
     pending_nickname |-> <<>>, handler |-> "none", reply |-> "none"]

\* no profile lookup in flight: step is the request of the lookup that is
\* running, attempt the attempts it has made, failures the retried errors
IdleResolver ==
    [step |-> 0, attempt |-> 0, failures |-> <<>>, outcome |-> "idle",
     reply |-> "none"]

\* no text handed to the code matcher
IdleProbe == [text |-> <<>>, code |-> <<>>, result |-> "none"]

\* ------------------------------------------------------------ code matcher
\* the matcher applied to the text and the code it was handed
match_probe ==
    /\ probe.result = "none"
    /\ probe' = [probe EXCEPT !.result =
                     IF contains_verification_code(probe.text, probe.code)
                     THEN "True" ELSE "False"]
    /\ UNCHANGED <<verifications, users, now, schema, last, txn, cap, qvars,
                   pvars, dialog, bans, resolver, admin_tokens, admins,
                   referrals>>

\* ------------------------------------------------------------------ dialog
\* The conversation of main.py: a requester's conversation state and
\* context.user_data.  bans holds the telegram ids whose users row has
\* is_banned set; no handler writes the column, an operator does.
PyBool(b) == IF b THEN "True" ELSE "False"

\* _load_user followed by _cache_user_state
Refreshed(d, telegram_id) ==
    [d EXCEPT !.is_verified = PyBool(IsVerified(users, telegram_id)),
              !.is_banned = PyBool(telegram_id \in bans)]

_ensure_user_state_CachedFirst(d, telegram_id, force_refresh) ==
    IF d.is_verified = "None" \/ d.is_banned = "None"
    THEN Refreshed(d, telegram_id)
    ELSE d

\* user_data after the call; the flags returned are the cached ones
_ensure_user_state(d, telegram_id, force_refresh) ==
    IF force_refresh \/ d.is_verified = "None" \/ d.is_banned = "None"
    THEN Refreshed(d, telegram_id)
    ELSE d

_clear_pending_nickname(d) == [d EXCEPT !.pending_nickname = <<>>]

Answer(d, handler, reply, state) ==
    [d EXCEPT !.handler = handler, !.reply = reply, !.state = state]

\* /start is not part of the conversation: its return value changes no state
start(r) ==
    /\ LET d == Refreshed(_clear_pending_nickname(dialog[r]), r)
           reply == IF d.is_banned = "True" THEN "ban_notice"
                    ELSE IF d.is_verified = "True" THEN "welcome_back"
                    ELSE "instruction"
       IN  dialog' = [dialog EXCEPT ![r] = Answer(d, "start", reply, d.state)]
    /\ UNCHANGED <<verifications, users, now, schema, last, txn, cap, qvars,
                   pvars, bans, resolver, probe, admin_tokens, admins,
                   referrals>>

\* entry point of the conversation
start_verification(r) ==
    /\ dialog[r].state = "END"
    /\ LET d == _ensure_user_state(_clear_pending_nickname(dialog[r]), r, TRUE)
       IN  dialog' = [dialog EXCEPT ![r] =
               IF d.is_banned = "True"
               THEN Answer(d, "start_verification", "ban_notice", "END")
               ELSE IF d.is_verified = "True"
               THEN Answer(d, "start_verification", "already_verified", "END")
               ELSE Answer(d, "start_verification", "instruction", "ASK_NICK")]
    /\ UNCHANGED <<verifications, users, now, schema, last, txn, cap, qvars,
                   pvars, bans, resolver, probe, admin_tokens, admins,
                   referrals>>

\* main.py ask_nickname: the text message received in state ASK_NICK
ask_nickname_text(r, nickname) ==
    /\ dialog[r].state = "ASK_NICK"
    /\ LET d == _ensure_user_state(dialog[r], r, TRUE)
       IN  dialog' = [dialog EXCEPT ![r] =
               IF d.is_banned = "True"
               THEN Answer(d, "ask_nickname", "ban_notice", "END")
               ELSE Answer([d EXCEPT !.pending_nickname = nickname],
                           "ask_nickname", "confirm_nick", "CONFIRM_NICK")]
    /\ UNCHANGED <<verifications, users, now, schema, last, txn, cap, qvars,
                   pvars, bans, resolver, probe, admin_tokens, admins,
                   referrals>>

\* main.py confirm_nickname on "confirm_nick_yes": _issue_verification_code
\* runs unless the nickname is gone or the requester is banned or verified;
\* an IntegrityError of its transaction leaves the handler as an exception,
\* which keeps the conversation state
confirm_nick_yes(r, code) ==
    /\ dialog[r].state = "CONFIRM_NICK"
    /\ LET d == _ensure_user_state(dialog[r], r, TRUE)
           out == SupersedeThenInsert(r, dialog[r].pending_nickname, code)
       IN  IF dialog[r].pending_nickname = <<>>
           THEN /\ dialog' = [dialog EXCEPT ![r] =
                       Answer(dialog[r], "confirm_nickname", "resend_nick", "ASK_NICK")]
                /\ UNCHANGED <<verifications, users, last>>
           ELSE IF d.is_banned = "True"
           THEN /\ dialog' = [dialog EXCEPT ![r] =
                       Answer(_clear_pending_nickname(d), "confirm_nickname",
                              "ban_notice", "END")]
                /\ UNCHANGED <<verifications, users, last>>
           ELSE IF d.is_verified = "True"
           THEN /\ dialog' = [dialog EXCEPT ![r] =
                       Answer(_clear_pending_nickname(d), "confirm_nickname",
                              "already_verified", "END")]
                /\ UNCHANGED <<verifications, users, last>>
           ELSE /\ Len(verifications) < cap
                /\ Apply("issue", out)
                /\ dialog' = [dialog EXCEPT ![r] =
                       IF out.status = "integrity_error"
                       THEN Answer(d, "confirm_nickname", "error", d.state)
                       ELSE Answer(_clear_pending_nickname(
                                       [d EXCEPT !.is_verified = "False"]),
                                   "confirm_nickname", "code", "END")]
    /\ UNCHANGED <<now, schema, txn, cap, qvars, pvars, bans, resolver, probe,
                   admin_tokens, admins, referrals>>

\* main.py confirm_nickname on "confirm_nick_no"
confirm_nick_no(r) ==
    /\ dialog[r].state = "CONFIRM_NICK"
    /\ dialog' = [dialog EXCEPT ![r] =
           Answer(_clear_pending_nickname(dialog[r]), "confirm_nickname",
                  "ask_again", "ASK_NICK")]
    /\ UNCHANGED <<verifications, users, now, schema, last, txn, cap, qvars,
                   pvars, bans, resolver, probe, admin_tokens, admins,
                   referrals>>

verification_timeout_ExpiresAttempt(r) ==
    /\ dialog[r].state # "END"
    /\ dialog' = [dialog EXCEPT ![r] =
           Answer(_clear_pending_nickname(dialog[r]), "verification_timeout",
                  "timeout", "END")]
    /\ verifications' = ExpireRows(verifications, PendingOf(verifications, r))
    /\ UNCHANGED <<users, now, schema, last, txn, cap, qvars,
                   pvars, bans, resolver, probe, admin_tokens, admins,
                   referrals>>

\* conversation_timeout ran out while the conversation was in a state
verification_timeout(r) ==
    /\ dialog[r].state # "END"
    /\ dialog' = [dialog EXCEPT ![r] =
           Answer(_clear_pending_nickname(dialog[r]), "verification_timeout",
                  "timeout", "END")]
    /\ UNCHANGED <<verifications, users, now, schema, last, txn, cap, qvars,
                   pvars, bans, resolver, probe, admin_tokens, admins,
                   referrals>>

\* /cancel, as fallback of the conversation or as command outside of it
cancel_verification(r) ==
    /\ dialog' = [dialog EXCEPT ![r] =
           Answer(_clear_pending_nickname(dialog[r]), "cancel_verification",
                  "cancelled", "END")]
    /\ UNCHANGED <<verifications, users, now, schema, last, txn, cap, qvars,
                   pvars, bans, resolver, probe, admin_tokens, admins,
                   referrals>>

\* the "check" button: the self-poll with the flag it caches on success; the
\* handler is registered outside the conversation and leaves its state alone
check_button(r, fetch) ==
    /\ LET out == PollConfirmation(r, fetch)
       IN  /\ Apply("poll", out)
           /\ dialog' = [dialog EXCEPT ![r].is_verified =
                            IF out.status = "verified" THEN "True" ELSE @]
    /\ UNCHANGED <<now, schema, txn, cap, qvars, pvars, bans, resolver, probe,
                   admin_tokens, admins, referrals>>

\* an operator sets is_banned on the requester's users row
ban(r) ==
    /\ r \notin bans
    /\ bans' = bans \cup {r}
    /\ UNCHANGED <<verifications, users, now, schema, last, txn, cap, qvars,
                   pvars, dialog, resolver, probe, admin_tokens, admins,
                   referrals>>

\* ------------------------------------------------------------ admin tokens
\* An admin's admin_id and a token's id are the row's index in its table; the
\* token string stands for the row it names (generate_token draws 16 random
\* bytes).  via is the token an admin row was created from (history, not a
\* column).  No code sets revoked_at, which is left out.  The
\* consumed_at column is declared nullable=Tru; the model takes the nullable
\* column its Optional type announces.
MaxTokens == 2

\* admin_token_ttl_seconds, in clock ticks of the model
AdminTTL == 1

AdminCallers == {1, 2, 3}

TokenRoles == {"support", "manager"}

AdminOf(as, telegram_id) ==
    LET found == {a \in DOMAIN as : as[a].telegram_id = telegram_id}
    IN  IF found = {} THEN 0 ELSE CHOOSE a \in found : TRUE

\* enforce_role(session, telegram_id, AdminRole.main) for a caller other
\* than the root admin: the admin_id, 0 for None
EnforceMain(telegram_id) ==
    LET a == AdminOf(admins, telegram_id)
    IN  IF a # 0 /\ admins[a].role = "main" THEN a ELSE 0

NewAdmin(telegram_id, role, granted_by, via) ==
    [telegram_id |-> telegram_id, role |-> role, granted_by |-> granted_by,
     via |-> via]

\* create_admin_token: the row it adds
NewAdminToken(created_by, role) ==
    [role_requested |-> role, created_by |-> created_by,
     approved_by |-> NULL, approved_at |-> NULL,
     consumed_by |-> NULL, consumed_at |-> NULL,
     expires_at |-> now + AdminTTL]

\* approve_admin_token: the tokens table after the call, unchanged when the
\* call returns False
approve_admin_token(ts, token, approver_id) ==
    IF token \notin DOMAIN ts THEN ts
    ELSE IF ts[token].expires_at < now THEN ts
    ELSE IF ts[token].approved_at # NULL THEN ts
    ELSE IF approver_id \notin DOMAIN admins THEN ts
    ELSE [ts EXCEPT ![token].approved_at = now, ![token].approved_by = approver_id]

\* consume_admin_token: whether the call returns an admin
consume_admin_token(ts, as, token, consumer_telegram_id) ==
    IF token \notin DOMAIN ts THEN FALSE
    ELSE IF ts[token].consumed_at # NULL \/ ts[token].expires_at < now THEN FALSE
    ELSE IF ts[token].approved_at = NULL \/ ts[token].approved_by \in {NULL, 0}
    THEN FALSE
    ELSE AdminOf(as, consumer_telegram_id) = 0

SameAdminVars ==
    UNCHANGED <<verifications, users, now, schema, cap, qvars, pvars, dialog,
                bans, resolver, probe, referrals>>

\* /admin_init with the initial token: the first main admin
admin_init(caller) ==
    /\ IF \E a \in DOMAIN admins : admins[a].role = "main"
       THEN /\ admins' = admins
            /\ last' = [op |-> "admin_init", status |-> "exists", prev |-> NULL]
       ELSE IF AdminOf(admins, caller) # 0
       THEN /\ admins' = admins
            /\ last' = [op |-> "admin_init", status |-> "integrity_error",
                        prev |-> NULL]
       ELSE /\ admins' = Append(admins, NewAdmin(caller, "main", NULL, 0))
            /\ last' = [op |-> "admin_init", status |-> "created", prev |-> NULL]
    /\ UNCHANGED <<admin_tokens, txn>>
    /\ SameAdminVars

\* /admin_token <role>: the token is created and approved in one transaction
admin_token(caller, role) ==
    /\ Len(admin_tokens) < MaxTokens
    /\ LET a == EnforceMain(caller)
           created == Append(admin_tokens, NewAdminToken(a, role))
       IN  IF a = 0
           THEN /\ admin_tokens' = admin_tokens
                /\ last' = [op |-> "admin_token", status |-> "denied", prev |-> NULL]
           ELSE /\ admin_tokens' = approve_admin_token(created, Len(created), a)
                /\ last' = [op |-> "admin_token", status |-> "created",
                            prev |-> Len(created)]
    /\ UNCHANGED <<admins, txn>>
    /\ SameAdminVars

\* create_admin_token called and committed without the approval, as the
\* service allows
create_admin_token(created_by, role) ==
    /\ Len(admin_tokens) < MaxTokens
    /\ created_by \in DOMAIN admins
    /\ admin_tokens' = Append(admin_tokens, NewAdminToken(created_by, role))
    /\ last' = [op |-> "create_admin_token", status |-> "created",
                prev |-> Len(admin_tokens) + 1]
    /\ UNCHANGED <<admins, txn>>
    /\ SameAdminVars

\* /admin_approve <token>
admin_approve(caller, token) ==
    /\ LET a == EnforceMain(caller)
           approved == approve_admin_token(admin_tokens, token, a)
       IN  IF a = 0
           THEN /\ admin_tokens' = admin_tokens
                /\ last' = [op |-> "admin_approve", status |-> "denied", prev |-> token]
           ELSE /\ admin_tokens' = approved
                /\ last' = [op |-> "admin_approve",
                            status |-> IF approved = admin_tokens
                                       THEN "refused" ELSE "approved",
                            prev |-> token]
    /\ UNCHANGED <<admins, txn>>
    /\ SameAdminVars

\* /admin_login <token> as an open transaction of a handler instance:
\* consume_admin_token reads the token and the consumer's admin row with
\* plain SELECTs; None ends the handler with a rollback
LoginTxns == {q \in Instances : txn[q].pc = "login_read"}

admin_login_read(p, caller, token) ==
    /\ txn[p].pc = "idle"
    /\ Len(admins) + Cardinality(LoginTxns) < Cardinality(AdminCallers)
    /\ IF consume_admin_token(admin_tokens, admins, token, caller)
       THEN /\ txn' = [txn EXCEPT ![p] =
                         [pc |-> "login_read", token |-> token,
                          consumer |-> caller, read |-> admin_tokens[token]]]
            /\ last' = last
       ELSE /\ txn' = txn
            /\ last' = [op |-> "admin_login", status |-> "refused", prev |-> token]
    /\ UNCHANGED <<admin_tokens, admins>>
    /\ SameAdminVars

\* the token row has been written by another transaction since it was read
TokenStale(t) == admin_tokens[t.token] # t.read

\* The commit of the login: the INSERT of the admin row is checked against
\* the unique telegram_id; the UPDATE of the token row goes by primary key.
\* What the database does to the UPDATE of a stale row is its own: it
\* applies it (read committed) or rejects the transaction (a lock or
\* serialization failure); both are allowed here.
admin_login_commit(p) ==
    /\ txn[p].pc = "login_read"
    /\ txn' = [txn EXCEPT ![p] = IdleTxn]
    /\ LET t == txn[p]
           applied ==
               /\ admins' = Append(admins,
                                NewAdmin(t.consumer, t.read.role_requested,
                                         t.read.approved_by, t.token))
               /\ admin_tokens' = [admin_tokens EXCEPT
                                      ![t.token].consumed_by = Len(admins) + 1,
                                      ![t.token].consumed_at = now]
               /\ last' = [op |-> "admin_login", status |-> "admin",
                           prev |-> t.token]
           raised ==
               /\ UNCHANGED <<admins, admin_tokens>>
               /\ last' = [op |-> "admin_login", status |-> "raised",
                           prev |-> t.token]
       IN  IF AdminOf(admins, t.consumer) # 0 THEN raised
           ELSE IF TokenStale(t) THEN applied \/ raised
           ELSE applied
    /\ SameAdminVars

\* --------------------------------------------------------------- referrals
\* rows the referrals table may hold
MaxReferrals == 3

\* settings.referral_reward_daily_cap, narrowed so that it is reached
referral_reward_daily_cap == 2

\* timedelta(days=1), in clock ticks of the model
Day == 1

Referrers == {1, 2}

RewardAmounts == {50}

\* SELECT count(id) WHERE referrer_id = :id AND status = rewarded AND
\* created_at >= utcnow() - 1 day
RewardedInDay(rs, at, referrer_id) ==
    Cardinality({i \in DOMAIN rs : /\ rs[i].referrer_id = referrer_id
                                   /\ rs[i].status = "rewarded"
                                   /\ rs[i].created_at >= at - Day})

can_reward_referral_Inclusive(rs, referrer_id) ==
    RewardedInDay(rs, now, referrer_id) <= referral_reward_daily_cap

can_reward_referral(rs, referrer_id) ==
    RewardedInDay(rs, now, referrer_id) < referral_reward_daily_cap

SameReferralVars ==
    UNCHANGED <<verifications, users, now, schema, txn, cap, qvars, pvars,
                dialog, bans, resolver, probe, admin_tokens, admins>>

\* a referral is recorded: Referral(referrer_id, referred_id), pending
add_referral(referrer_id, referred_id) ==
    /\ Len(referrals) < MaxReferrals
    /\ referrals' = Append(referrals,
                           [referrer_id |-> referrer_id,
                            referred_id |-> referred_id, reward_amount |-> 0,
                            status |-> "pending", created_at |-> now])
    /\ last' = [op |-> "add_referral", status |-> "pending",
                prev |-> Len(referrals) + 1]
    /\ SameReferralVars

\* mark_referral_rewarded followed by the caller's commit
mark_referral_rewarded(referral_id, reward_amount) ==
    /\ IF referral_id \notin DOMAIN referrals
       THEN /\ referrals' = referrals
            /\ last' = [op |-> "mark_referral_rewarded", status |-> "none",
                        prev |-> referral_id]
       ELSE IF referrals[referral_id].status # "pending"
       THEN /\ referrals' = referrals
            /\ last' = [op |-> "mark_referral_rewarded", status |-> "unchanged",
                        prev |-> referral_id]
       ELSE IF ~can_reward_referral(referrals, referrals[referral_id].referrer_id)
       THEN /\ referrals' = [referrals EXCEPT ![referral_id].status = "flagged"]
            /\ last' = [op |-> "mark_referral_rewarded", status |-> "flagged",
                        prev |-> referral_id]
       ELSE /\ referrals' = [referrals EXCEPT
                                ![referral_id].status = "rewarded",
                                ![referral_id].reward_amount = reward_amount]
            /\ last' = [op |-> "mark_referral_rewarded", status |-> "rewarded",
                        prev |-> referral_id]
    /\ SameReferralVars

\* flag_suspicious_referral followed by the caller's commit
flag_suspicious_referral(referral_id) ==
    /\ referral_id \in DOMAIN referrals
    /\ referrals' = [referrals EXCEPT ![referral_id].status = "flagged"]
    /\ last' = [op |-> "flag_suspicious_referral", status |-> "flagged",
                prev |-> referral_id]
    /\ SameReferralVars

\* -------------------------------------------------------- signed endpoints
\* settings.hmac_secret, and a key a caller without the secret signs with
HmacSecret == "secret"

SignerKeys == {HmacSecret, "guess"}

\* hmac.new(key, message, sha256).hexdigest(): equal for equal key and
\* message, different otherwise (collisions of the digest left aside)
Hmac(key, message) == [key |-> key, message |-> message]

verify_hmac_Unkeyed(message, signature) ==
    signature.message = message

\* compare_digest(expected, signature)
verify_hmac(message, signature) ==
    Hmac(HmacSecret, message) = signature

\* the raw body of a request to one of the backend endpoints
CheckBody(username, code, player_id) ==
    [username |-> username, code |-> code, player_id |-> player_id]

\* HTTPException(401): the request ends before its session is opened
Unauthorized(op) ==
    /\ last' = [op |-> op, status |-> "401", prev |-> NULL]
    /\ UNCHANGED <<verifications, users, now, schema, txn, cap, xvars, qvars,
                   pvars>>

\* POST /api/verify-callback with the signature header it carries: the
\* signature was computed under key over a body naming signed_player
verify_callback(h, event_id, code, player_id, key, signed_player) ==
    IF verify_hmac(VerificationEvent(event_id, code, player_id),
                   Hmac(key, VerificationEvent(event_id, code, signed_player)))
    THEN verify_callback_commit(h, event_id, code, player_id)
    ELSE http[h].pc = "idle" /\ Unauthorized("verify_callback")

\* POST /bot/verification/check
verification_check(username, code, player_id, key, signed_player) ==
    IF verify_hmac(CheckBody(username, code, player_id),
                   Hmac(key, CheckBody(username, code, signed_player)))
    THEN process_backend_confirmation(<<username>>, code, player_id)
    ELSE Unauthorized("verification_check")

\* POST /bot/verification/status
verification_status(username, player_id, key, signed_player) ==
    IF verify_hmac(CheckBody(username, <<>>, player_id),
                   Hmac(key, CheckBody(username, <<>>, signed_player)))
    THEN fetch_status_for_username(username)
    ELSE Unauthorized("verification_status")

\* ---------------------------------------------------------------- resolver
\* stop_after_attempt(3)
RetryAttempts == 3

\* what one HTTP exchange can end in: a body, a body without data, a status
\* code the request maps to an exception, or an error of the transport
Responses == {"200", "200_empty", "429", "404", "500", "transport"}

\* the exception one attempt raises, "none" when it returns the body
AttemptRaises(resp) ==
    CASE resp = "429" -> "RobloxRateLimitError"
      [] resp = "404" -> "RobloxProfileNotFound"
      [] resp = "500" -> "RobloxServiceError"
      [] resp = "transport" -> "TransportError"
      [] OTHER -> "none"

\* retry_if_exception_type((RobloxRateLimitError, httpx.TransportError))
Retried(exc) == exc \in {"RobloxRateLimitError", "TransportError"}

\* isinstance(exc, RobloxServiceError): the class and its two subclasses
IsRobloxServiceError(exc) ==
    exc \in {"RobloxServiceError", "RobloxProfileNotFound", "RobloxRateLimitError"}

\* the lookup goes on after request number step returned resp
RequestReturned(resp) ==
    CASE resolver.step = 1 /\ resp = "200_empty" ->
             [resolver EXCEPT !.attempt = @ + 1,
                              !.outcome = "RobloxProfileNotFound"]
      [] resolver.step = 3 ->
             [resolver EXCEPT !.attempt = @ + 1, !.outcome = "returned"]
      [] OTHER ->
             [resolver EXCEPT !.step = @ + 1, !.attempt = 0, !.failures = <<>>]

\* request number step raised exc: the status request tolerates a 404
RequestRaised(exc) ==
    IF resolver.step = 3 /\ exc = "RobloxProfileNotFound"
    THEN [resolver EXCEPT !.attempt = @ + 1, !.outcome = "returned"]
    ELSE [resolver EXCEPT !.attempt = @ + 1,
                          !.failures = IF Retried(exc) THEN Append(@, exc) ELSE @,
                          !.outcome = exc]

fetch_profile_begin ==
    /\ resolver.outcome = "idle" \/ resolver.reply # "none"
    /\ resolver' = [IdleResolver EXCEPT !.step = 1, !.outcome = "running"]
    /\ UNCHANGED <<verifications, users, now, schema, last, txn, cap, qvars,
                   pvars, dialog, bans, probe, admin_tokens, admins, referrals>>

\* one attempt of the running request; with reraise=True the last attempt's
\* own exception leaves the request
_roblox_request_attempt(resp) ==
    /\ resolver.outcome = "running"
    /\ resolver.attempt < RetryAttempts
    /\ LET exc == AttemptRaises(resp)
       IN  resolver' =
               IF exc = "none" THEN RequestReturned(resp)
               ELSE IF Retried(exc) /\ resolver.attempt + 1 < RetryAttempts
               THEN [resolver EXCEPT !.attempt = @ + 1,
                                     !.failures = Append(@, exc)]
               ELSE RequestRaised(exc)
    /\ UNCHANGED <<verifications, users, now, schema, last, txn, cap, qvars,
                   pvars, dialog, bans, probe, admin_tokens, admins, referrals>>

\* the except clauses of the self-poll around the lookup
check_verification_status_report ==
    /\ resolver.outcome \notin {"idle", "running"}
    /\ resolver.reply = "none"
    /\ resolver' = [resolver EXCEPT !.reply =
                        IF resolver.outcome = "returned" THEN "profile"
                        ELSE IF resolver.outcome = "RobloxProfileNotFound"
                        THEN "profile_not_found"
                        ELSE IF IsRobloxServiceError(resolver.outcome)
                        THEN "could_not_check"
                        ELSE "unhandled"]
    /\ UNCHANGED <<verifications, users, now, schema, last, txn, cap, qvars,
                   pvars, dialog, bans, probe, admin_tokens, admins, referrals>>

\* --------------------------------------------------------- specifications
InitWith(rows) ==
    /\ verifications = <<>>
    /\ users = <<>>
    /\ now = 0
    /\ schema = "create_all"
    /\ last = [op |-> "init", status |-> "none", prev |-> NULL]
    /\ txn = [p \in Instances |-> IdleTxn]
    /\ cap = rows
    /\ events_queue = <<>>
    /\ redis = <<>>
    /\ worker = [w \in Workers |-> IdleWorker]
    /\ http = [h \in Instances |-> IdleHttp]
    /\ purchase_requests = <<>>
    /\ items = Catalogue
    /\ balances = {}
    /\ dialog = [r \in Requesters |-> IdleDialog]
    /\ bans = {}
    /\ resolver = IdleResolver
    /\ probe = IdleProbe
    /\ admin_tokens = <<>>
    /\ admins = <<>>
    /\ referrals = <<>>

Init == InitWith(MaxRows)

InitDeep == InitWith(MaxDeepRows)

Next ==
    \/ \E r \in Requesters, n \in ClaimNicks, c \in Codes :
           ask_nickname(r, n, c)
    \/ \E r \in Requesters, n \in ClaimNicks, c \in Codes :
           confirm_nickname(r, n, c)
    \/ \E u \in Usernames, c \in Codes, p \in PlayerIds :
           process_backend_confirmation(u, c, p)
    \/ \E c \in Codes, p \in PlayerIds : handle_verification(c, p)
    \/ \E r \in Requesters, f \in Fetches : check_verification_status(r, f)
    \/ \E r \in Requesters : check_status(r)
    \/ Tick
    \/ upgrade

\* the status query next to the operations that create, use and expire
\* attempts, with two nicknames to claim and usernames that match one, the
\* other or none
StatusNicks == { <<"F">>, <<"g">> }

QueryNames == { <<" ", "f">>, <<"F">>, <<"g">>, <<"b">> }

NextStatus ==
    \/ \E r \in Requesters, n \in StatusNicks, c \in Codes :
           ask_nickname(r, n, c)
    \/ \E c \in Codes, p \in PlayerIds : handle_verification(c, p)
    \/ \E r \in Requesters : check_status(r)
    \/ \E u \in QueryNames : fetch_status_for_username(u)
    \/ Tick

SpecStatus == Init /\ [][NextStatus]_vars

NextConc ==
    \/ \E p \in Instances, r \in Requesters, n \in ClaimNicks, c \in Codes :
           IssueBegin(p, r, n, c)
    \/ \E p \in Instances : IssueCommit(p)
    \/ Tick
    \/ upgrade

Spec == Init /\ [][Next]_vars

SpecDeep == InitDeep /\ [][Next]_vars

SpecConc == Init /\ [][NextConc]_vars

\* deliveries of callbacks, concurrent, with a consumer that empties the list
NextCallback ==
    \/ \E h \in Instances, e \in EventIds, c \in Codes, p \in CallbackPlayers :
           verify_callback_commit(h, e, c, p)
    \/ \E h \in Instances : verify_callback_push(h)
    \/ \E h \in Instances : verify_callback_crash(h)
    \/ \E w \in Workers : dequeue_event(w)
    \/ \E w \in Workers : worker_crash(w)

SpecCallback == Init /\ [][NextCallback]_vars

\* the workers at work on verification events: issue creates the attempts,
\* callbacks (delivered one at a time) produce the events.  The clock stands
\* still here: every handler runs within the TTL of the attempts (expiry is
\* the matter of Spec and SpecDeep).
InitQueue == InitWith(MaxQueueRows)

OneInstance == {1}

NextQueue ==
    \/ \E r \in Requesters, n \in ClaimNicks, c \in Codes :
           ask_nickname(r, n, c)
    \/ \E h \in OneInstance, e \in EventIds, c \in Codes, p \in CallbackPlayers :
           verify_callback_commit(h, e, c, p)
    \/ \E h \in OneInstance : verify_callback_push(h)
    \/ foreign_push
    \/ \E w \in Workers : dequeue_event(w)
    \/ \E w \in Workers : handle_verification_select(w)
    \/ \E w \in Workers : handle_verification_commit(w)
    \/ \E w \in Workers : mark_event_processed(w)
    \/ \E w \in Workers : drop_unknown(w)
    \/ \E w \in Workers : worker_crash(w)

SpecQueue == InitQueue /\ [][NextQueue]_vars

\* one pass of worker_loop's body, step by step
WorkerStep(w) ==
    \/ dequeue_event(w)
    \/ handle_verification_select(w)
    \/ handle_verification_commit(w)
    \/ mark_event_processed(w)
    \/ drop_unknown(w)

\* one worker process that is never killed: main runs worker_loop, a
\* "while True" whose every await returns (blpop and the sleeps time out), so
\* a step of the loop that stays possible is taken
OneWorker == {1}

\* one event id more than the attempts there can be, so that a callback
\* event is still to come after one was applied and one has failed
LoopEventIds == EventIds \cup { <<"evt", 3>> }

NextLoop ==
    \/ \E r \in Requesters, n \in ClaimNicks, c \in Codes :
           ask_nickname(r, n, c)
    \/ \E h \in OneInstance, e \in LoopEventIds, c \in Codes, p \in CallbackPlayers :
           verify_callback_commit(h, e, c, p)
    \/ \E h \in OneInstance : verify_callback_push(h)
    \/ foreign_push
    \/ \E w \in OneWorker : WorkerStep(w)

SpecLoop ==
    InitQueue /\ [][NextLoop]_vars /\ \A w \in OneWorker : WF_vars(WorkerStep(w))

\* /buy commands of two handler instances, interleaved
NextBuy ==
    \/ \E p \in Instances, r \in Requesters, i \in ItemArgs, k \in IdempotencyKeys :
           purchase_lookup(p, r, i, k)
    \/ \E p \in Instances : purchase_commit(p)

SpecBuy == Init /\ [][NextBuy]_vars

\* the purchase command and one worker, with purchase events delivered again
NextConfirm ==
    \/ \E r \in Requesters, i \in ItemArgs, k \in IdempotencyKeys : purchase(r, i, k)
    \/ \E id \in 1..MaxRequests : cancel_purchase(id)
    \/ \E id \in 1..MaxRequests : replay_push(id)
    \/ \E w \in OneWorker : dequeue_event(w)
    \/ \E w \in OneWorker : handle_purchase(w)
    \/ \E w \in OneWorker : mark_event_processed(w)

SpecConfirm == Init /\ [][NextConfirm]_vars

\* the purchase command and two workers whose handlers interleave
NextConfirmConc ==
    \/ \E r \in Requesters, i \in ItemArgs, k \in IdempotencyKeys : purchase(r, i, k)
    \/ \E w \in Workers : dequeue_event(w)
    \/ \E w \in Workers : handle_purchase_read(w)
    \/ \E w \in Workers : handle_purchase_commit(w)
    \/ \E w \in Workers : mark_event_processed(w)

SpecConfirmConc == Init /\ [][NextConfirmConc]_vars

\* the purchase command, the transport and the workers
NextPurchase ==
    \/ \E r \in Requesters, i \in ItemArgs, k \in IdempotencyKeys :
           purchase(r, i, k)
    \/ \E q \in 1..MaxRequests : cancel_purchase(q)
    \/ foreign_push
    \/ \E w \in Workers : dequeue_event(w)
    \/ \E w \in Workers : handle_purchase(w)
    \/ \E w \in Workers : mark_event_processed(w)
    \/ \E w \in Workers : drop_unknown(w)
    \/ \E w \in Workers : worker_crash(w)

SpecPurchase == Init /\ [][NextPurchase]_vars

\* the signed endpoints, called with and without a valid signature, next to
\* the dialog step that issues the attempts they act on
SignedNames == { <<"F">>, <<"g">> }

SignedRequesters == {1}

SignedCodes == { <<"B", "-", "1">> }

NextSigned ==
    \/ \E r \in SignedRequesters, n \in ClaimNicks, c \in Codes :
           ask_nickname(r, n, c)
    \/ \E e \in EventIds, c \in SignedCodes, p \in CallbackPlayers,
          key \in SignerKeys, sp \in PlayerIds :
           verify_callback(1, e, c, p, key, sp)
    \/ verify_callback_push(1)
    \/ \E u \in SignedNames, c \in Codes, p \in PlayerIds,
          key \in SignerKeys, sp \in PlayerIds :
           verification_check(u, c, p, key, sp)
    \/ \E u \in SignedNames, p \in PlayerIds,
          key \in SignerKeys, sp \in PlayerIds :
           verification_status(u, p, key, sp)

SpecSigned == Init /\ [][NextSigned]_vars

\* the conversation of one requester, the self-poll, the clock and the
\* operator who bans
DialogRequesters == {1}

DialogFetches ==
    {[kind |-> "not_found", user_id |-> NULL, text |-> <<>>]}
    \cup [kind : {"profile"}, user_id : {7}, text : ProfileTexts]

NextDialog ==
    \/ \E r \in DialogRequesters : start(r)
    \/ \E r \in DialogRequesters : start_verification(r)
    \/ \E r \in DialogRequesters, n \in ClaimNicks : ask_nickname_text(r, n)
    \/ \E r \in DialogRequesters, c \in Codes : confirm_nick_yes(r, c)
    \/ \E r \in DialogRequesters : confirm_nick_no(r)
    \/ \E r \in DialogRequesters : verification_timeout(r)
    \/ \E r \in DialogRequesters : cancel_verification(r)
    \/ \E r \in DialogRequesters, f \in DialogFetches : check_button(r, f)
    \/ \E r \in DialogRequesters : ban(r)
    \/ Tick

SpecDialog == Init /\ [][NextDialog]_vars

\* the admin commands of three callers, two handler instances for the login
NextAdmin ==
    \/ \E c \in AdminCallers : admin_init(c)
    \/ \E c \in AdminCallers, role \in TokenRoles : admin_token(c, role)
    \/ \E a \in 1..Cardinality(AdminCallers), role \in TokenRoles :
           create_admin_token(a, role)
    \/ \E c \in AdminCallers, t \in 1..MaxTokens : admin_approve(c, t)
    \/ \E p \in Instances, c \in AdminCallers, t \in 1..MaxTokens :
           admin_login_read(p, c, t)
    \/ \E p \in Instances : admin_login_commit(p)
    \/ Tick

SpecAdmin == Init /\ [][NextAdmin]_vars

\* referrals recorded, rewarded and flagged one call after another
NextReferral ==
    \/ \E r \in Referrers : add_referral(r, 9)
    \/ \E id \in 1..(MaxReferrals + 1), amount \in RewardAmounts :
           mark_referral_rewarded(id, amount)
    \/ \E id \in 1..MaxReferrals : flag_suspicious_referral(id)
    \/ Tick

SpecReferral == Init /\ [][NextReferral]_vars

\* one profile lookup after another
NextResolver ==
    \/ fetch_profile_begin
    \/ \E resp \in Responses : _roblox_request_attempt(resp)
    \/ check_verification_status_report

SpecResolver == Init /\ [][NextResolver]_vars

\* the code matcher on every text and code within the bounds
SeqsUpTo(S, n) == UNION {[1..k -> S] : k \in 0..n}

InitMatch ==
    /\ verifications = <<>>
    /\ users = <<>>
    /\ now = 0
    /\ schema = "create_all"
    /\ last = [op |-> "init", status |-> "none", prev |-> NULL]
    /\ txn = [p \in Instances |-> IdleTxn]
    /\ cap = MaxRows
    /\ events_queue = <<>>
    /\ redis = <<>>
    /\ worker = [w \in Workers |-> IdleWorker]
    /\ http = [h \in Instances |-> IdleHttp]
    /\ purchase_requests = <<>>
    /\ items = Catalogue
    /\ balances = {}
    /\ dialog = [r \in Requesters |-> IdleDialog]
    /\ bans = {}
    /\ resolver = IdleResolver
    /\ probe \in [text : SeqsUpTo(MatchChars, MaxTextLen),
                   code : SeqsUpTo(MatchChars, MaxCodeLen),
                   result : {"none"}]
    /\ admin_tokens = <<>>
    /\ admins = <<>>
    /\ referrals = <<>>

NextMatch == match_probe

SpecMatch == InitMatch /\ [][NextMatch]_vars

\* ------------------------------------------------------------------ claims
Statuses(vs) == [i \in Ids(vs) |-> vs[i].status]

\* (external_account_id, verified) of a requester; <<NULL, FALSE>> without a row
Identity(us, telegram_id) ==
    IF UserOf(us, telegram_id) = 0 THEN <<NULL, FALSE>>
    ELSE <<us[UserOf(us, telegram_id)].roblox_id,
           us[UserOf(us, telegram_id)].verified_at # NULL>>

Unexpired(v) == verifications[v].expires_at >= now

\* C1: every Issue call succeeds and leaves exactly one pending attempt for
\* the requester, the one just created, with every attempt of the requester
\* that was pending before now expired.
C1_EveryIssueSucceeds ==
    [][last'.op = "issue" =>
       \A r \in Requesters, n \in ClaimNicks, c \in Codes :
          (ask_nickname(r, n, c) \/ confirm_nickname(r, n, c))
          => /\ last'.status = "ok"
             /\ Len(verifications') = Len(verifications) + 1
             /\ PendingOf(verifications', r) = {Len(verifications')}
             /\ \A i \in PendingOf(verifications, r) :
                    verifications'[i].status = "expired"]_vars

\* C2: however Issue transactions of one requester interleave, no committed
\* state holds more than one pending attempt of a requester.
C2_SinglePending ==
    \A r \in Requesters : Cardinality(PendingOf(verifications, r)) <= 1

\* an Issue transaction was rolled back because another Issue of the same
\* requester committed while it was open
C2_Witness ==
    \E p, q \in Instances :
        /\ p # q
        /\ txn[p].pc = "rolled_back" /\ txn[p].raced
        /\ txn[q].pc = "committed"
        /\ txn[q].telegram_id = txn[p].telegram_id
        /\ Cardinality(PendingOf(verifications, txn[p].telegram_id)) = 1

\* C3: used and expired are terminal: no step changes the status of an
\* attempt that is used or expired.
C3_TerminalStatuses ==
    [][\A i \in Ids(verifications) :
          verifications[i].status \in {"used", "expired"}
          => verifications'[i].status = verifications[i].status]_vars

\* C4: a backend confirmation with the code of a superseded attempt whose TTL
\* has not elapsed returns expired, leaves the attempt expired and leaves the
\* users table as it was.
C4_SupersededReportsExpired ==
    [][last'.op = "backend" =>
       \A u \in Usernames, c \in Codes, p \in PlayerIds :
          LET v == Latest(WithCode(verifications, c))
          IN  (/\ process_backend_confirmation(u, c, p)
               /\ v # 0
               /\ verifications[v].status = "expired"
               /\ Unexpired(v)
               /\ _nicknames_match(verifications[v].roblox_nick, u))
              => /\ last'.status = "expired"
                 /\ verifications'[v].status = "expired"
                 /\ users' = users]_vars

\* C5: for a pending, unexpired attempt with code c, a backend confirmation
\* returns verified, and a second one with code c (any player id) returns
\* already_verified and changes neither the users table nor the attempts.
\* Stated for player ids that no other requester is bound to, the case the
\* users.roblox_id index rejects by design.
FreeFor(player_id, telegram_id) ==
    \A i \in DOMAIN users :
        users[i].roblox_id = player_id => users[i].telegram_id = telegram_id

SecondConfirmationIsNoop(c) ==
    \A u \in Usernames, p \in PlayerIds :
        /\ BackendConfirmation(u, c, p).status = "already_verified"
        /\ BackendConfirmation(u, c, p).vs = verifications
        /\ BackendConfirmation(u, c, p).us = users

C5_VerifiedThenAlreadyVerified ==
    [][last'.op = "backend" =>
       \A u \in Usernames, c \in Codes, p \in PlayerIds :
          LET v == Latest(WithCode(verifications, c))
          IN  (/\ process_backend_confirmation(u, c, p)
               /\ v # 0
               /\ verifications[v].status = "pending"
               /\ Unexpired(v)
               /\ FreeFor(p, verifications[v].telegram_id)
               /\ _nicknames_match(verifications[v].roblox_nick, u))
              => /\ last'.status = "verified"
                 /\ SecondConfirmationIsNoop(c)']_vars

\* C6: a pending attempt past its TTL, confirmed through the backend path, the
\* worker or the self-poll, becomes expired and the users table is unchanged.
C6_PastTtlExpires ==
    [][/\ \A u \in Usernames, c \in Codes, p \in PlayerIds :
            LET v == Latest(WithCode(verifications, c))
            IN  (/\ process_backend_confirmation(u, c, p)
                 /\ v # 0
                 /\ verifications[v].status = "pending"
                 /\ ~Unexpired(v))
                => (verifications'[v].status = "expired" /\ users' = users)
       /\ \A c \in Codes, p \in PlayerIds : \A v \in WorkerCandidates(c) :
            (/\ Apply("worker", WorkerConfirmation(v, p))
             /\ UNCHANGED <<now, schema, txn, cap, xvars, qvars, pvars>>
             /\ ~Unexpired(v))
            => (verifications'[v].status = "expired" /\ users' = users)
       /\ \A r \in Requesters, f \in Fetches :
            LET v == Latest(PendingOf(verifications, r))
            IN  (/\ check_verification_status(r, f)
                 /\ v # 0
                 /\ ~Unexpired(v))
                => (verifications'[v].status = "expired" /\ users' = users)]_vars

\* C7: a backend confirmation whose username differs from the stored nickname
\* after trim and lower-casing, on a pending unexpired attempt, returns
\* mismatch and changes no attempt and no user; without a username the result
\* is never mismatch.
C7_MismatchChangesNothing ==
    [][last'.op = "backend" =>
       \A u \in Usernames, c \in Codes, p \in PlayerIds :
          LET v == Latest(WithCode(verifications, c))
          IN  process_backend_confirmation(u, c, p)
              => /\ (/\ v # 0
                     /\ verifications[v].status = "pending"
                     /\ Unexpired(v)
                     /\ u # <<>>
                     /\ Lower(Strip(u[1])) # Lower(Strip(verifications[v].roblox_nick)))
                    => /\ last'.status = "mismatch"
                       /\ verifications' = verifications
                       /\ users' = users
                 /\ (u = <<>> => last'.status # "mismatch")]_vars

\* the backend path answered mismatch while every attempt was pending and
\* within its TTL
C7_Witness ==
    /\ last.op = "backend" /\ last.status = "mismatch"
    /\ Len(verifications) > 0
    /\ \A i \in Ids(verifications) :
           verifications[i].status = "pending" /\ Unexpired(i)

\* C8: when a backend confirmation returns verified for an attempt of
\* requester r with player id p, the attempt is used with expires_at = now,
\* and r has exactly one users row, bound to p and verified; a row r already
\* had is rewritten, not duplicated.
C8_VerifiedUpserts ==
    [][last'.op = "backend" =>
       \A u \in Usernames, c \in Codes, p \in PlayerIds :
          LET v == Latest(WithCode(verifications, c))
          IN  (process_backend_confirmation(u, c, p) /\ last'.status = "verified")
              => LET r == verifications[v].telegram_id
                     rows == {i \in DOMAIN users' : users'[i].telegram_id = r}
                 IN  /\ verifications'[v].status = "used"
                     /\ verifications'[v].expires_at = now
                     /\ Cardinality(rows) = 1
                     /\ \A i \in rows : /\ users'[i].roblox_id = p
                                        /\ users'[i].verified_at = now
                     /\ (UserOf(users, r) # 0 => Len(users') = Len(users))]_vars

\* the backend path returned verified for a requester bound to another
\* account before, and no users row holds that earlier account any more
C8_Witness ==
    /\ last.op = "backend" /\ last.status = "verified"
    /\ last.prev # NULL
    /\ \A i \in DOMAIN users : users[i].roblox_id # last.prev

\* C9: for an attempt v of requester r that is the most recent attempt with
\* its code, the self-poll of r with a profile that contains v's code and has
\* account id p, and the backend confirmation with v's code and p, leave v in
\* the same status and r with the same identity.
C9_PollEqualsBackend ==
    \A r \in Requesters, p \in PlayerIds, t \in ProfileTexts :
        \A v \in OfRequester(verifications, r) :
            (/\ v = Latest(WithCode(verifications, verifications[v].code))
             /\ contains_verification_code(t, verifications[v].code))
            => LET b == BackendConfirmation(<<>>, verifications[v].code, p)
                   s == PollConfirmation(r, [kind |-> "profile", user_id |-> p, text |-> t])
               IN  /\ b.vs[v].status = s.vs[v].status
                   /\ Identity(b.us, r) = Identity(s.us, r)

\* C10: from every state, the worker's dispatch with code c and player id p
\* leaves the same attempt statuses and identities as the backend confirmation
\* with no username, c and p.
C10_WorkerEqualsBackend ==
    \A c \in Codes, p \in PlayerIds :
        \A v \in WorkerChoices(c) :
            LET b == BackendConfirmation(<<>>, c, p)
                w == WorkerConfirmation(v, p)
            IN  /\ Statuses(b.vs) = Statuses(w.vs)
                /\ \A r \in Requesters : Identity(b.us, r) = Identity(w.us, r)

\* C11: two workers that both selected the same attempt as pending and within
\* its TTL, for a player id no other requester is bound to: neither commit
\* ends in an exception, and after the second commit the attempt is used, the
\* statuses of all attempts and the requester's identity are what the first
\* commit left, with one users row for the requester, bound to the player id.
C11_DuplicateConsumptionIsSafe ==
    [][\A w \in Workers :
          LET v == worker[w].v
              r == verifications[v].telegram_id
              p == worker[w].event.player_id
          IN  (/\ handle_verification_commit(w)
               /\ ~worker[w].expired
               /\ FreeFor(p, r))
              => /\ (\E x \in Workers \ {w} :
                        worker[x].pc \in {"selected", "returned"} /\ worker[x].v = v)
                    => /\ last'.status = "verified"
                       /\ verifications'[v].status = "used"
                       /\ Identity(users', r) = <<p, TRUE>>
                       /\ Cardinality({i \in DOMAIN users' :
                                          users'[i].telegram_id = r}) = 1
                 /\ verifications[v].status = "used"
                    => /\ Statuses(verifications') = Statuses(verifications)
                       /\ Identity(users', r) = Identity(users, r)
                       /\ Len(users') = Len(users)]_vars

\* both workers have committed their writes to the same attempt
C11_Witness ==
    \E w, x \in Workers :
        /\ w # x
        /\ worker[w].pc = "returned" /\ worker[x].pc = "returned"
        /\ worker[w].v # 0 /\ worker[w].v = worker[x].v
        /\ verifications[worker[w].v].status = "used"
        /\ last.op = "worker" /\ last.status = "verified"

\* C12: the ledger never holds two rows with one event id, no event is pushed
\* more than once, and a callback whose event id is already in the ledger is
\* answered with the duplicate status and changes neither ledger nor list.
C12_DuplicateDeliveryIsNoop ==
    [][/\ \A i, j \in DOMAIN events_queue' :
              i # j => events_queue'[i].event_id # events_queue'[j].event_id
       /\ \A i \in DOMAIN events_queue' : events_queue'[i].pushed <= 1
       /\ \A h \in Instances, e \in EventIds, c \in Codes, p \in CallbackPlayers :
              (verify_callback_commit(h, e, c, p) /\ LedgerIds(events_queue, e) # {})
              => /\ http'[h].response = StatusDuplicate
                 /\ http'[h].pc = "idle"
                 /\ events_queue' = events_queue
                 /\ redis' = redis]_vars

\* a delivery was answered as a duplicate while another delivery of the same
\* event id had committed its row and not yet pushed
C12_Witness ==
    \E h, g \in Instances :
        /\ h # g
        /\ http[h].response = StatusDuplicate
        /\ http[g].pc = "committed"
        /\ Cardinality(LedgerIds(events_queue, http[g].event.event_id)) = 1

\* C13: the purchase command repeated with an idempotency key that is already
\* stored ends without an error and adds neither a purchase request nor a
\* ledger row.
C13_RepeatedPurchaseIsNoop ==
    [][last'.op = "purchase" =>
       \A r \in Requesters, i \in ItemArgs, k \in IdempotencyKeys :
          (purchase(r, i, k) /\ WithKey(purchase_requests, k) # {})
          => /\ last'.status # "integrity_error"
             /\ purchase_requests' = purchase_requests
             /\ events_queue' = events_queue]_vars

\* C14: every callback event whose ledger row is committed has been pushed
\* or is held by a request that will push it next; so no accepted event is
\* left that nothing will ever push.
C14_AcceptedIsEnqueued ==
    \A i \in DOMAIN events_queue :
        \/ events_queue[i].pushed > 0
        \/ \E h \in Instances :
               /\ http[h].pc = "committed"
               /\ http[h].event.event_id = events_queue[i].event_id

\* C15: a callback with an event id the ledger does not hold commits exactly
\* one row under that id before anything is pushed; the push that follows
\* appends exactly one item, of type "verification" and carrying the payload,
\* and the answer is "queued"; every verification item on the list has its
\* ledger row.
C15_CommitThenPushThenQueued ==
    [][/\ \A h \in Instances, e \in EventIds, c \in Codes, p \in CallbackPlayers :
              (verify_callback_commit(h, e, c, p) /\ LedgerIds(events_queue, e) = {})
              => /\ Cardinality(LedgerIds(events_queue', e)) = 1
                 /\ Len(events_queue') = Len(events_queue) + 1
                 /\ redis' = redis
       /\ \A h \in Instances :
              verify_callback_push(h)
              => /\ redis' = Append(redis, http[h].event)
                 /\ http[h].event.type = "verification"
                 /\ \E i \in LedgerIds(events_queue, http[h].event.event_id) :
                        events_queue[i].payload = http[h].event
                 /\ http'[h].response = "queued"
       /\ \A k \in DOMAIN redis' :
              redis'[k].type = "verification"
              => LedgerIds(events_queue', redis'[k].event_id) # {}]_vars

\* C16: a ledger row's processed_at is set only by the worker loop's
\* mark_event_processed, for the event whose handler has returned without an
\* exception and has committed what it wrote; a handler that raises, and a
\* worker that dies while it holds the event, leave processed_at as it was.
C16_ProcessedOnlyAfterHandlerReturned ==
    [][/\ \A i \in DOMAIN events_queue :
              events_queue'[i].processed_at # events_queue[i].processed_at
              => \E w \in Workers :
                     /\ mark_event_processed(w)
                     /\ worker[w].pc = "returned"
                     /\ ProcessedEventId(worker[w].event) = events_queue[i].event_id
                     /\ worker[w].v # 0
                        => verifications[worker[w].v].status \in {"used", "expired"}
       /\ Len(events_queue') >= Len(events_queue)
       /\ \A w \in Workers :
              /\ worker[w].pc = "selected"
              /\ WorkerWrite(worker[w].v, worker[w].expired,
                             worker[w].event.player_id).status = "integrity_error"
              /\ worker'[w] # worker[w]
              => /\ events_queue' = events_queue
                 /\ worker'[w].pc = "idle"
       /\ \A w \in Workers :
              worker_crash(w) => events_queue' = events_queue]_vars

\* a handler has raised, and the event it held is neither marked processed
\* nor held by any worker
C16_Witness ==
    /\ last.op = "worker"
    /\ last.status = "integrity_error"
    /\ \E w \in Workers : worker[w].failed /\ worker[w].pc = "idle"
    /\ \E i \in DOMAIN events_queue :
           /\ events_queue[i].pushed = 1
           /\ events_queue[i].processed_at = NULL
           /\ \A w \in Workers : worker[w].event # events_queue[i].payload

\* C17: when the handler raises, the event is left for retry: after the
\* step in which the exception leaves the handler, the event is on the
\* transport list again, where a later dequeue finds it.
C17_RaisedEventIsLeftForRetry ==
    [][last'.status = "integrity_error" =>
       \A w \in Workers :
          (handle_verification_commit(w) /\ HandlerRaises(w))
          => \E k \in DOMAIN redis' : redis'[k] = worker[w].event]_vars

\* C18: an event of a type the worker does not know is taken off the
\* transport list once and dropped: the step that disposes of it changes no
\* attempt, no bound identity, no purchase request, no item, no balance and
\* no ledger row, and does not put the event back on the list.
C18_UnknownTypeIsDropped ==
    [][\A w \in Workers :
          /\ worker[w].pc = "dispatch"
          /\ worker[w].event.type \notin {"verification", "purchase"}
          /\ worker'[w] # worker[w]
          => /\ verifications' = verifications
             /\ users' = users
             /\ purchase_requests' = purchase_requests
             /\ items' = items
             /\ balances' = balances
             /\ events_queue' = events_queue
             /\ redis' = redis
             /\ worker'[w].pc = "idle"
             /\ worker'[w].event = NoEvent]_vars

\* the loop has logged an unknown type, and the event is nowhere any more,
\* while the ledger holds the row of a pushed callback event
C18_Witness ==
    /\ last.op = "worker_loop"
    /\ last.status = "unknown_event_type"
    /\ \A k \in DOMAIN redis : redis[k] # ForeignEvent
    /\ \A w \in Workers : worker[w].event # ForeignEvent
    /\ \E i \in DOMAIN events_queue : events_queue[i].pushed = 1

\* C19: the worker loop does not stop because of one event: once a handler
\* has raised in it, or it has met an unknown type, an event waiting on the
\* transport list is dequeued and reaches the dispatch, as long as the
\* process runs.
C19_LoopGoesOn ==
    (/\ redis # <<>>
     /\ \/ \E w \in OneWorker : worker[w].failed
        \/ last.status = "unknown_event_type")
    ~> (\E w \in OneWorker : worker[w].pc = "dispatch")

\* a loop in which a handler has raised holds a later event at the dispatch
C19_Witness ==
    \E w \in OneWorker :
        /\ worker[w].failed
        /\ worker[w].pc = "dispatch"
        /\ worker[w].event.type = "verification"

\* C20: when the worker dispatches a purchase event and confirm_purchase
\* yields no confirmed request (the request is missing, or cancelled, or its
\* item is missing or sold out), the handler rolls back: every request's
\* status, every item's copies_sold and the balance rows are as before.
C20_UnconfirmedPurchaseIsRolledBack ==
    [][\A w \in Workers :
          (/\ handle_purchase(w)
           /\ LET id == worker[w].event.request_id
              IN  \/ id \notin DOMAIN purchase_requests
                  \/ purchase_requests[id].status = "cancelled"
                  \/ /\ purchase_requests[id].status = "pending"
                     /\ \/ purchase_requests[id].item_id \notin DOMAIN items
                        \/ SoldOut(items[purchase_requests[id].item_id]))
          => /\ \A i \in DOMAIN purchase_requests :
                    purchase_requests'[i].status = purchase_requests[i].status
             /\ Len(purchase_requests') = Len(purchase_requests)
             /\ \A i \in DOMAIN items :
                    items'[i].copies_sold = items[i].copies_sold
             /\ balances' = balances]_vars

\* the handler has returned from the event of a request that is still
\* pending while its item is sold out and its buyer has no balance row
C20_Witness ==
    \E w \in Workers :
        /\ worker[w].pc = "returned"
        /\ worker[w].event.type = "purchase"
        /\ worker[w].event.request_id \in DOMAIN purchase_requests
        /\ LET request == purchase_requests[worker[w].event.request_id]
           IN  /\ request.status = "pending"
               /\ SoldOut(items[request.item_id])
               /\ request.user_id \notin balances

\* C21: a create_purchase_request call whose idempotency key a stored request
\* already carries, made with a different request id and any requester and
\* item, returns the stored request with its original request_id and adds no
\* row: storage holds exactly one request with that key.
C21_SameKeyReturnsFirstRequest ==
    [][last'.op = "purchase" =>
       \A r \in Requesters, i \in ItemArgs, k \in IdempotencyKeys :
          (purchase(r, i, k) /\ WithKey(purchase_requests, k) # {})
          => LET fresh == Len(purchase_requests) + 1
                 got == create_purchase_request(purchase_requests, items,
                                                fresh, r, i, k)
             IN  /\ got.status = "existing"
                 /\ got.request_id # fresh
                 /\ \A j \in WithKey(purchase_requests, k) :
                        got.request_id = purchase_requests[j].request_id
                 /\ got.prs = purchase_requests
                 /\ Cardinality(WithKey(purchase_requests', k)) = 1]_vars

\* the command has been repeated with a stored key while another request,
\* with another key, was created in between
C21_Witness ==
    /\ last.op = "purchase"
    /\ last.status = "integrity_error"
    /\ Len(purchase_requests) = 2
    /\ \A k \in IdempotencyKeys : Cardinality(WithKey(purchase_requests, k)) = 1

\* C22: when two /buy transactions with the same idempotency key interleave,
\* both looking the key up before either inserts, the one that inserts
\* second does not fail with an error, and storage holds exactly one request
\* with that key.
C22_RacingCreatesBothSucceed ==
    [][last'.op = "purchase" =>
       \A p \in Instances :
          (/\ purchase_commit(p)
           /\ txn[p].found = 0
           /\ WithKey(purchase_requests, txn[p].idempotency_key) # {})
          => /\ last'.status # "integrity_error"
             /\ Cardinality(WithKey(purchase_requests', txn[p].idempotency_key)) = 1]_vars

\* C23: the purchase command with an idempotency key not yet stored fails
\* with "Item not found" when the item does not exist and with "Item sold
\* out" when copies_total is not null and copies_sold >= copies_total, and
\* then stores no request row and no ledger row; when copies_total is null
\* there is no sold-out error and a pending request with the key is inserted.
C23_CreateFailsOrInsertsPending ==
    [][last'.op = "purchase" =>
       \A r \in Requesters, i \in ItemArgs, k \in IdempotencyKeys :
          (purchase(r, i, k) /\ WithKey(purchase_requests, k) = {})
          => /\ i \notin DOMAIN items
                => /\ last'.status = "Item not found"
                   /\ purchase_requests' = purchase_requests
                   /\ events_queue' = events_queue
             /\ (/\ i \in DOMAIN items
                 /\ items[i].copies_total # NULL
                 /\ items[i].copies_sold >= items[i].copies_total)
                => /\ last'.status = "Item sold out"
                   /\ purchase_requests' = purchase_requests
                   /\ events_queue' = events_queue
             /\ (i \in DOMAIN items /\ items[i].copies_total = NULL)
                => /\ last'.status = "ok"
                   /\ Len(purchase_requests') = Len(purchase_requests) + 1
                   /\ \E j \in WithKey(purchase_requests', k) :
                          /\ purchase_requests'[j].status = "pending"
                          /\ purchase_requests'[j].item_id = i
                          /\ purchase_requests'[j].user_id = r]_vars

\* a purchase of the limited item has been refused as sold out, after an
\* earlier one of the unlimited item was stored
C23_Witness ==
    /\ last.op = "purchase"
    /\ last.status = "Item sold out"
    /\ \E i \in DOMAIN items : SoldOut(items[i])
    /\ \A j \in DOMAIN purchase_requests : purchase_requests[j].status = "confirmed"

\* the confirmed requests of an item
ConfirmedFor(prs, item_id) ==
    {j \in DOMAIN prs : prs[j].item_id = item_id /\ prs[j].status = "confirmed"}

\* C24: confirming is idempotent per request: when the worker handles a
\* purchase event of a request that is already confirmed, confirm_purchase
\* returns the confirmed request and the request's status and completed_at
\* and the item's copies_sold stay as they are; so copies_sold of an item
\* counts each confirmed request once.
C24_ConfirmIsIdempotent ==
    [][/\ \A w \in OneWorker :
             (/\ handle_purchase(w)
              /\ worker[w].event.request_id \in DOMAIN purchase_requests
              /\ purchase_requests[worker[w].event.request_id].status = "confirmed")
             => /\ confirm_purchase(purchase_requests, items, balances,
                                    worker[w].event.request_id).result = "confirmed"
                /\ purchase_requests' = purchase_requests
                /\ items' = items
       /\ \A i \in DOMAIN items :
             items'[i].copies_sold = Cardinality(ConfirmedFor(purchase_requests', i))]_vars

\* the handler has returned from a second delivery of the event of a
\* confirmed request
C24_Witness ==
    \E w \in OneWorker :
        /\ worker[w].pc = "returned"
        /\ worker[w].event.type = "purchase"
        /\ worker[w].event.request_id \in DOMAIN purchase_requests
        /\ purchase_requests[worker[w].event.request_id].status = "confirmed"
        /\ \E i \in LedgerIds(events_queue, PurchaseEventId(worker[w].event.request_id)) :
               /\ events_queue[i].pushed = 2
               /\ events_queue[i].processed_at # NULL
        /\ \A k \in DOMAIN redis : redis[k] # worker[w].event

\* C25: when the worker handles the purchase event of a pending request
\* whose item is sold out, the request is cancelled durably: after the
\* handler's step the stored status is "cancelled", not "confirmed", and
\* copies_sold is unchanged.
C25_SoldOutConfirmCancels ==
    [][\A w \in Workers :
          (/\ handle_purchase(w)
           /\ worker[w].event.request_id \in DOMAIN purchase_requests
           /\ LET request == purchase_requests[worker[w].event.request_id]
              IN  /\ request.status = "pending"
                  /\ request.item_id \in DOMAIN items
                  /\ SoldOut(items[request.item_id]))
          => /\ purchase_requests'[worker[w].event.request_id].status = "cancelled"
             /\ items' = items]_vars

\* C26: for an item with a non-null copies_total, under every interleaving
\* of the workers' confirming transactions, copies_sold never exceeds
\* copies_total and the number of confirmed requests of the item never
\* exceeds copies_total.
C26_ConfirmedWithinCopies ==
    \A i \in DOMAIN items :
        items[i].copies_total # NULL
        => /\ items[i].copies_sold <= items[i].copies_total
           /\ Cardinality(ConfirmedFor(purchase_requests, i)) <= items[i].copies_total

\* C27: confirmed and cancelled are terminal: cancel_purchase changes the
\* status only of a pending request (a confirmed request stays confirmed, a
\* cancelled one cancelled, and copies_sold is not decremented), and
\* confirm_purchase on a cancelled request returns None, the worker's
\* handler changing neither the request nor copies_sold.
C27_TerminalStatuses ==
    [][/\ \A id \in DOMAIN purchase_requests :
             /\ purchase_requests'[id].status # purchase_requests[id].status
                => purchase_requests[id].status = "pending"
             /\ cancel_purchase(id)
                => /\ items' = items
                   /\ purchase_requests'[id].status =
                         IF purchase_requests[id].status = "pending"
                         THEN "cancelled" ELSE purchase_requests[id].status
                   /\ \A j \in DOMAIN purchase_requests \ {id} :
                          purchase_requests'[j] = purchase_requests[j]
       /\ \A w \in Workers :
             (/\ handle_purchase(w)
              /\ worker[w].event.request_id \in DOMAIN purchase_requests
              /\ purchase_requests[worker[w].event.request_id].status = "cancelled")
             => /\ confirm_purchase(purchase_requests, items, balances,
                                    worker[w].event.request_id).result = "none"
                /\ purchase_requests' = purchase_requests
                /\ items' = items]_vars

\* a confirmed request has been through cancel_purchase, and the worker has
\* handled the event of a cancelled one
C27_Witness ==
    /\ last.op = "cancel"
    /\ last.status = "confirmed"
    /\ \E w \in Workers :
           /\ worker[w].pc = "returned"
           /\ worker[w].event.type = "purchase"
           /\ worker[w].event.request_id \in DOMAIN purchase_requests
           /\ purchase_requests[worker[w].event.request_id].status = "cancelled"

\* the attempts, of any requester, whose claimed nickname is the username
\* once trimmed and lower-cased, letter case apart
ClaimedAs(username) ==
    {i \in DOMAIN verifications :
        Lower(verifications[i].roblox_nick) = Lower(Strip(username))}

\* C28: the status query answers for the most recently created attempt
\* whose claimed nickname matches the trimmed, lower-cased username, across
\* all requesters: not_found when there is none, verified when it is used,
\* pending when it is pending with expires_at >= now, expired otherwise; and
\* it changes no row.
C28_StatusQuery ==
    [][\A u \in QueryNames :
          fetch_status_for_username(u)
          => /\ verifications' = verifications
             /\ users' = users
             /\ last'.status =
                   IF ClaimedAs(u) = {} THEN "not_found"
                   ELSE LET newest == CHOOSE i \in ClaimedAs(u) :
                                          \A j \in ClaimedAs(u) : j <= i
                            row == verifications[newest]
                        IN  IF row.status = "used" THEN "verified"
                            ELSE IF row.status = "pending" /\ row.expires_at >= now
                                 THEN "pending"
                            ELSE "expired"]_vars

\* the query has answered "expired" while every attempt claims the same
\* nickname and the newest, another requester's than the older one, is
\* still pending in storage past its TTL
C28_Witness ==
    /\ last.op = "status"
    /\ last.status = "expired"
    /\ \A k \in DOMAIN verifications : verifications[k].roblox_nick = <<"F">>
    /\ \E i, j \in DOMAIN verifications :
           /\ i < j
           /\ verifications[i].roblox_nick = <<"F">>
           /\ verifications[j].roblox_nick = <<"F">>
           /\ verifications[i].telegram_id # verifications[j].telegram_id
           /\ verifications[i].status = "used"
           /\ verifications[j].status = "pending"
           /\ verifications[j].expires_at < now
           /\ \A k \in DOMAIN verifications : k <= j

\* C29: when the self-poll runs for a requester whose latest pending attempt
\* is unexpired, and the resolver reports not-found or service-unavailable
\* or the profile text does not contain the code, every attempt (status,
\* code and expires_at) and every bound identity stay as they are, so that
\* the attempt is still pending for a later poll.
C29_FailedPollLeavesPending ==
    [][last'.op = "poll" =>
       \A r \in Requesters, f \in Fetches :
          (/\ check_verification_status(r, f)
           /\ PendingOf(verifications, r) # {}
           /\ verifications[Latest(PendingOf(verifications, r))].expires_at >= now
           /\ \/ f.kind \in {"not_found", "service_error"}
              \/ ~contains_verification_code(
                     f.text, verifications[Latest(PendingOf(verifications, r))].code))
          => /\ verifications' = verifications
             /\ users' = users
             /\ verifications'[Latest(PendingOf(verifications, r))].status = "pending"
             /\ last'.status \in {"profile_not_found", "unavailable", "code_not_found"}]_vars

\* a poll has not found the code in the profile; the requester's attempt is
\* pending and within its TTL, and the requester has no bound identity
C29_Witness ==
    /\ last.op = "poll"
    /\ last.status = "code_not_found"
    /\ \E r \in Requesters :
           /\ PendingOf(verifications, r) # {}
           /\ verifications[Latest(PendingOf(verifications, r))].expires_at >= now
           /\ UserOf(users, r) = 0
    /\ Cardinality({i \in DOMAIN verifications : verifications[i].status = "pending"}) = 1

\* C30: attempt rows are never deleted, and the storage constraint admits
\* any number of expired rows of one requester: when the status check finds
\* the requester's latest attempt pending past its TTL, the expiry succeeds
\* and every earlier row is kept, also when the requester already has an
\* expired attempt.
C30_HistoryAdmitsManyExpired ==
    [][/\ Len(verifications') >= Len(verifications)
       /\ last'.op = "check_status" =>
          \A r \in Requesters :
             LET v == Latest(OfRequester(verifications, r))
             IN  (/\ check_status(r)
                  /\ v # 0
                  /\ verifications[v].status = "pending"
                  /\ verifications[v].expires_at < now)
                 => /\ last'.status = "expired"
                    /\ verifications'[v].status = "expired"
                    /\ \A i \in DOMAIN verifications \ {v} :
                           verifications'[i] = verifications[i]]_vars

\* the requesters, other than telegram_id, to whom player_id is bound
OtherHolders(player_id, telegram_id) ==
    {k \in DOMAIN users :
        users[k].roblox_id = player_id /\ users[k].telegram_id # telegram_id}

\* C38: no two users rows hold the same non-null roblox_id; a confirmation
\* through the backend path or the worker of a pending, unexpired attempt,
\* with a player id that is bound to a different requester, fails as a
\* whole: the attempt stays pending and no users row changes.
C38_PlayerIdBoundOnce ==
    [][/\ \A i, j \in DOMAIN users' :
             (i # j /\ users'[i].roblox_id # NULL)
             => users'[i].roblox_id # users'[j].roblox_id
       /\ last'.op = "backend" =>
          \A u \in Usernames, c \in Codes, p \in PlayerIds :
             LET v == Latest(WithCode(verifications, c))
             IN  (/\ process_backend_confirmation(u, c, p)
                  /\ v # 0
                  /\ verifications[v].status = "pending"
                  /\ verifications[v].expires_at >= now
                  /\ _nicknames_match(verifications[v].roblox_nick, u)
                  /\ OtherHolders(p, verifications[v].telegram_id) # {})
                 => /\ verifications' = verifications
                    /\ users' = users
                    /\ last'.status = "integrity_error"
       /\ last'.op = "worker" =>
          \A c \in Codes, p \in PlayerIds :
             (/\ handle_verification(c, p)
              /\ WorkerCandidates(c) # {}
              /\ \A v \in WorkerCandidates(c) :
                    /\ verifications[v].expires_at >= now
                    /\ OtherHolders(p, verifications[v].telegram_id) # {})
             => /\ verifications' = verifications
                /\ users' = users
                /\ last'.status = "integrity_error"]_vars

\* the worker's confirmation has failed on a player id that another
\* requester holds; the attempt is pending and its requester has no row
C38_Witness ==
    /\ last.op = "worker"
    /\ last.status = "integrity_error"
    /\ \E v \in DOMAIN verifications, k \in DOMAIN users :
           /\ verifications[v].status = "pending"
           /\ verifications[v].expires_at >= now
           /\ users[k].telegram_id # verifications[v].telegram_id
           /\ UserOf(users, verifications[v].telegram_id) = 0

\* C39: in every committed state each attempt with status used belongs to a
\* requester who has a users row with verified_at set and roblox_id not
\* null: the transition to used and the identity upsert are committed
\* together or not at all.
C39_UsedHasIdentity ==
    \A v \in DOMAIN verifications :
        verifications[v].status = "used"
        => /\ UserOf(users, verifications[v].telegram_id) # 0
           /\ users[UserOf(users, verifications[v].telegram_id)].verified_at # NULL
           /\ users[UserOf(users, verifications[v].telegram_id)].roblox_id # NULL

\* the worker has confirmed an attempt of a requester who had no users row
C39_Witness ==
    /\ last.op = "worker"
    /\ last.status = "verified"
    /\ last.prev = NULL
    /\ \E v \in DOMAIN verifications :
           /\ verifications[v].status = "used"
           /\ IsVerified(users, verifications[v].telegram_id)

\* C40: in every committed state, for every item, copies_sold (0 at the
\* start) equals the number of the item's confirmed requests, and every
\* confirmed request has completed_at set, under any interleaving of the
\* purchase command and the workers' confirmations.
C40_CopiesSoldCountsConfirmed ==
    /\ \A i \in DOMAIN items :
           items[i].copies_sold - Catalogue[i].copies_sold
               = Cardinality(ConfirmedFor(purchase_requests, i))
    /\ \A j \in DOMAIN purchase_requests :
           purchase_requests[j].status = "confirmed"
           => purchase_requests[j].completed_at # NULL

\* C34: the matcher answers true exactly when the code, lower-cased and
\* stripped of every character that is not a letter or a digit (the
\* underscore included), is non-empty, the text treated the same way is
\* non-empty, and the former occurs in the latter as a contiguous run
Squeezed(s) ==
    LET kept == {i \in DOMAIN s : s[i] \notin {"_", "-", " "}}
        Nth(k) == CHOOSE i \in kept : Cardinality({j \in kept : j <= i}) = k
    IN  [k \in 1..Cardinality(kept) |->
            IF s[Nth(k)] = "B" THEN "b" ELSE s[Nth(k)]]

OccursIn(c, t) ==
    \E k \in 0..(Len(t) - Len(c)) : \A i \in 1..Len(c) : t[k + i] = c[i]

C34_MatchIsNormalizedSubstring ==
    probe.result # "none" =>
        (probe.result = "True" <=>
            /\ Squeezed(probe.code) # <<>>
            /\ Squeezed(probe.text) # <<>>
            /\ OccursIn(Squeezed(probe.code), Squeezed(probe.text)))

\* a code found although case and separators differ
C34_Witness ==
    /\ probe.result = "True"
    /\ probe.text = <<"b", "_", "1">>
    /\ probe.code = <<"B", "1">>

\* C33: a request makes at most three attempts, and a request whose three
\* attempts all failed with a rate limit or a transport error ends in a
\* RobloxServiceError other than RobloxProfileNotFound, which the self-poll
\* answers with 'could not check'
C33_ExhaustedRetriesAreServiceUnavailable ==
    /\ resolver.attempt <= RetryAttempts
    /\ (resolver.outcome \notin {"idle", "running"}
            /\ Len(resolver.failures) = RetryAttempts)
        => /\ IsRobloxServiceError(resolver.outcome)
           /\ resolver.outcome # "RobloxProfileNotFound"
           /\ resolver.reply \in {"none", "could_not_check"}

\* C31: a request to verify-callback, verification check or verification
\* status whose signature is not the HMAC of its body under the shared secret
\* is answered 401 and leaves the ledger, the transport list, the attempts
\* and the identities as they were
BadSignature(key, player_id, signed_player) ==
    key # HmacSecret \/ signed_player # player_id

Rejected(op) ==
    /\ last' = [op |-> op, status |-> "401", prev |-> NULL]
    /\ UNCHANGED <<events_queue, redis, http, verifications, users>>

C31_BadSignatureTouchesNothing ==
    [][\A key \in SignerKeys, p \in PlayerIds, sp \in PlayerIds :
          BadSignature(key, p, sp) =>
              /\ \A e \in EventIds, c \in SignedCodes :
                     verify_callback(1, e, c, p, key, sp)
                         => Rejected("verify_callback")
              /\ \A u \in SignedNames, c \in Codes :
                     verification_check(u, c, p, key, sp)
                         => Rejected("verification_check")
              /\ \A u \in SignedNames :
                     verification_status(u, p, key, sp)
                         => Rejected("verification_status")]_vars

\* a check request was turned away while an attempt was pending
C31_Witness ==
    /\ last.op = "verification_check"
    /\ last.status = "401"
    /\ \E v \in Ids(verifications) :
           verifications[v].status = "pending" /\ Unexpired(v)

\* C32: the dialog timeout and the dialog cancel leave every attempt as it
\* was, and the self-poll run after either of them confirms an attempt
\* that is pending within its TTL when the profile shows its code
Confirmable(r, fetch) ==
    LET v == Latest(PendingOf(verifications, r))
    IN  /\ v # 0
        /\ verifications[v].expires_at >= now
        /\ fetch.kind = "profile"
        /\ contains_verification_code(fetch.text, verifications[v].code)

C32_DialogEndKeepsAttempt ==
    [][/\ \A r \in DialogRequesters :
              (verification_timeout(r) \/ cancel_verification(r))
                  => verifications' = verifications /\ users' = users
       /\ \A r \in DialogRequesters, f \in DialogFetches :
              (/\ dialog[r].handler \in {"verification_timeout", "cancel_verification"}
               /\ dialog[r].state = "END"
               /\ Confirmable(r, f)
               /\ check_button(r, f))
                  => /\ last'.status = "verified"
                     /\ IsVerified(users', r)
                     /\ PendingOf(verifications', r) = {}]_vars

\* the dialog timed out over an attempt that is still pending, within its
\* TTL, and that the self-poll would confirm
C32_Witness ==
    /\ dialog[1].handler = "verification_timeout"
    /\ dialog[1].state = "END"
    /\ \E f \in DialogFetches :
           Confirmable(1, f) /\ PollConfirmation(1, f).status = "verified"

AdminsVia(token) == {a \in DOMAIN admins : admins[a].via = token}

C36_OneTokenOneAdmin ==
    \A t \in DOMAIN admin_tokens :
        /\ Cardinality(AdminsVia(t)) <= 1
        /\ AdminsVia(t) # {} =>
               /\ admin_tokens[t].approved_at # NULL
               /\ AdminsVia(t) = {admin_tokens[t].consumed_by}
               /\ \A a \in AdminsVia(t) :
                      admins[a].role = admin_tokens[t].role_requested

\* C37: whatever calls are made one after another, no referrer has more
\* rewarded referrals created within the last day than the daily cap; a call
\* for a pending referral rewards it while the referrer's count is below the
\* cap and flags it otherwise, and a call for a referral that is not pending
\* changes nothing
RewardedRecently(rs, at, referrer_id) ==
    {i \in DOMAIN rs : /\ rs[i].referrer_id = referrer_id
                       /\ rs[i].status = "rewarded"
                       /\ at - rs[i].created_at <= Day}

C37_RewardsWithinDailyCap ==
    [][/\ \A r \in Referrers :
              Cardinality(RewardedRecently(referrals', now', r))
                  <= referral_reward_daily_cap
       /\ \A id \in DOMAIN referrals, amount \in RewardAmounts :
              mark_referral_rewarded(id, amount) =>
                  LET row == referrals[id]
                      below ==
                          Cardinality(RewardedRecently(referrals, now, row.referrer_id))
                              < referral_reward_daily_cap
                  IN  IF row.status # "pending" THEN referrals' = referrals
                      ELSE /\ referrals'[id].status =
                                  IF below THEN "rewarded" ELSE "flagged"
                           /\ \A j \in DOMAIN referrals :
                                  j # id => referrals'[j] = referrals[j]]_vars

\* a pending referral was flagged because its referrer had reached the cap
C37_Witness ==
    /\ last.op = "mark_referral_rewarded"
    /\ last.status = "flagged"
    /\ \E r \in Referrers :
           /\ Cardinality(RewardedRecently(referrals, now, r))
                  = referral_reward_daily_cap
           /\ referrals[last.prev].referrer_id = r
           /\ referrals[last.prev].status = "flagged"
====
